---- MODULE Spec2Model ----
(***************************************************************************)
(* Model of the extract-url-metadata tool of src/src/index.ts: the field   *)
(* mapping, the batch loop, the concurrent row tasks and the payload       *)
(* builders.  A text whose characters matter (a property name, a URL) is a *)
(* sequence of one-character strings; a text of which only the size        *)
(* matters (publication, summary, a paragraph) is its length.              *)
(***************************************************************************)
EXTENDS Integers, Sequences, FiniteSets, TLC

\* ------------------------------------------------------------------ bounds
MaxRows == 3

MaxBatch == 2

\* ------------------------------------------------------- program constants
RichTextLimit == 2000

SelectLimit == 100

SummaryChars == 150

MaxParagraphs == 15

BlockThreshold == 3

\* ------------------------------------------------------------ text helpers
Min(a, b) == IF a < b THEN a ELSE b

Max(a, b) == IF a > b THEN a ELSE b

UpperChars ==
  << "A","B","C","D","E","F","G","H","I","J","K","L","M",
     "N","O","P","Q","R","S","T","U","V","W","X","Y","Z" >>

LowerChars ==
  << "a","b","c","d","e","f","g","h","i","j","k","l","m",
     "n","o","p","q","r","s","t","u","v","w","x","y","z" >>

\* String.prototype.toLowerCase on one character
LowerChar(c) ==
  IF \E j \in 1..26 : UpperChars[j] = c
    THEN LowerChars[CHOOSE j \in 1..26 : UpperChars[j] = c]
    ELSE c

toLowerCase(s) == [k \in 1..Len(s) |-> LowerChar(s[k])]

\* String.prototype.includes
includes(s, part) ==
  \E k \in 0..(Len(s) - Len(part)) : SubSeq(s, k + 1, k + Len(part)) = part

\* String.prototype.startsWith
startsWith(s, prefix) ==
  Len(s) >= Len(prefix) /\ SubSeq(s, 1, Len(prefix)) = prefix

\* String.prototype.substring(0, n), on the length of the text
substring0(len, n) == Min(len, n)

\* Array.prototype.slice(start, end) with JavaScript's handling of negative
\* and out-of-range indices
SliceIndex(k, n) == IF k < 0 THEN Max(n + k, 0) ELSE Min(k, n)

slice(seq, start, end) ==
  LET a == SliceIndex(start, Len(seq))
      b == SliceIndex(end, Len(seq))
  IN  IF a < b THEN SubSeq(seq, a + 1, b) ELSE << >>

\* the 1-based row numbers that slice(i, i + batchSize) selects
sliceRows(n, start, end) ==
  LET a == SliceIndex(start, n)
      b == SliceIndex(end, n)
  IN  IF a < b THEN (a + 1)..b ELSE {}

\* --------------------------------------------------- candidate name lists
NoName == << >>

UrlNames ==
  << <<"U","R","L">>, <<"L","i","n","k">>, <<"W","e","b","s","i","t","e">>,
     <<"A","d","d","r","e","s","s">>,
     <<"S","o","u","r","c","e"," ","L","i","n","k">> >>

PublicationNames ==
  << <<"P","u","b","l","i","c","a","t","i","o","n">>,
     <<"P","u","b","l","i","s","h","e","r">>,
     <<"S","o","u","r","c","e">>, <<"S","i","t","e">>,
     <<"W","e","b","s","i","t","e"," ","N","a","m","e">>,
     <<"O","r","i","g","i","n">> >>

AuthorNames ==
  << <<"A","u","t","h","o","r">>, <<"A","u","t","h","o","r","(","s",")">>,
     <<"W","r","i","t","e","r">>, <<"C","r","e","a","t","o","r">>,
     <<"B","y">> >>

DateNames ==
  << <<"D","a","t","e">>, <<"P","u","b","l","i","s","h","e","d">>,
     <<"P","u","b","l","i","s","h","e","d"," ","D","a","t","e">>,
     <<"P","u","b","l","i","s","h"," ","D","a","t","e">>,
     <<"R","e","l","e","a","s","e"," ","D","a","t","e">>,
     <<"P","o","s","t"," ","D","a","t","e">> >>

SummaryNames ==
  << <<"S","u","m","m","a","r","y">>,
     <<"A","r","t","i","c","l","e"," ","S","u","m","m","a","r","y">>,
     <<"T","L","D","R">>,
     <<"D","e","s","c","r","i","p","t","i","o","n">>,
     <<"B","r","i","e","f">> >>

\* ------------------------------------------------------- field resolution
\* Object.keys(propertyInfoMap): the schema is a sequence of [name, type]
availableProperties(propertyInfoMap) ==
  [k \in 1..Len(propertyInfoMap) |-> propertyInfoMap[k].name]

\* the least element of a non-empty set of numbers
MinOf(S) == CHOOSE a \in S : \A b \in S : a <= b

MaxOf(S) == CHOOSE a \in S : \A b \in S : a >= b

CaseTest(name, prop) == toLowerCase(prop) = toLowerCase(name)

PartialTest(name, prop) ==
  \/ includes(toLowerCase(prop), toLowerCase(name))
  \/ includes(toLowerCase(name), toLowerCase(prop))

\* "First try exact match": the first candidate that is a property
ExactMatch(props, possibleNames) ==
  LET hits == { n \in 1..Len(possibleNames) :
                  \E k \in 1..Len(props) : props[k] = possibleNames[n] }
  IN  IF hits = {} THEN NoName ELSE possibleNames[MinOf(hits)]

\* "Then try case-insensitive match": for the first candidate that has one,
\* the first property (Array.prototype.find) equal to it up to case
CaseMatch(props, possibleNames) ==
  LET hits == { n \in 1..Len(possibleNames) :
                  \E k \in 1..Len(props) : CaseTest(possibleNames[n], props[k]) }
  IN  IF hits = {} THEN NoName
      ELSE props[MinOf({ k \in 1..Len(props) :
                           CaseTest(possibleNames[MinOf(hits)], props[k]) })]

\* "Then try partial match (contains)", in either direction
PartialMatch(props, possibleNames) ==
  LET hits == { n \in 1..Len(possibleNames) :
                  \E k \in 1..Len(props) : PartialTest(possibleNames[n], props[k]) }
  IN  IF hits = {} THEN NoName
      ELSE props[MinOf({ k \in 1..Len(props) :
                           PartialTest(possibleNames[MinOf(hits)], props[k]) })]

\* a resolution that goes through the candidates once and takes, for the
\* first candidate that matches some property in any way, its best match
findMatchingPropertyByCandidate(propertyInfoMap, possibleNames) ==
  LET props == availableProperties(propertyInfoMap)
      hits == { n \in 1..Len(possibleNames) :
                  \E k \in 1..Len(props) : PartialTest(possibleNames[n], props[k]) }
      first == << possibleNames[MinOf(hits)] >>
  IN  IF hits = {} THEN possibleNames[1]
      ELSE IF ExactMatch(props, first) # NoName THEN ExactMatch(props, first)
      ELSE IF CaseMatch(props, first) # NoName THEN CaseMatch(props, first)
      ELSE PartialMatch(props, first)

findMatchingProperty(propertyInfoMap, possibleNames) ==
  LET props == availableProperties(propertyInfoMap)
      exact == ExactMatch(props, possibleNames)
      nocase == CaseMatch(props, possibleNames)
      partial == PartialMatch(props, possibleNames)
  IN  IF exact # NoName THEN exact
      ELSE IF nocase # NoName THEN nocase
      ELSE IF partial # NoName THEN partial
      ELSE possibleNames[1]

NoType == "null"

getPropertyType(propertyInfoMap, propertyName) ==
  IF \E k \in 1..Len(propertyInfoMap) : propertyInfoMap[k].name = propertyName
    THEN propertyInfoMap[CHOOSE k \in 1..Len(propertyInfoMap) :
                           propertyInfoMap[k].name = propertyName].type
    ELSE NoType

\* "declared || findMatchingProperty(...)": an absent or empty name is falsy
Resolve(declared, propertyInfoMap, possibleNames) ==
  IF declared # NoName THEN declared
  ELSE findMatchingProperty(propertyInfoMap, possibleNames)

FieldMapping(propertyInfoMap, a) ==
  LET u == Resolve(a.urlPropertyName, propertyInfoMap, UrlNames)
      p == Resolve(a.publicationPropertyName, propertyInfoMap, PublicationNames)
      w == Resolve(a.authorPropertyName, propertyInfoMap, AuthorNames)
      d == Resolve(a.datePropertyName, propertyInfoMap, DateNames)
      s == Resolve(a.summaryPropertyName, propertyInfoMap, SummaryNames)
  IN  [ urlPropertyName2 |-> u,
        publicationProperty |-> p,
        authorProperty |-> w,
        dateProperty |-> d,
        summaryProperty |-> s,
        publicationPropertyType |-> getPropertyType(propertyInfoMap, p),
        authorPropertyType |-> getPropertyType(propertyInfoMap, w),
        datePropertyType |-> getPropertyType(propertyInfoMap, d),
        summaryPropertyType |-> getPropertyType(propertyInfoMap, s) ]

\* -------------------------------------------------------- payload builders
\* size of a text made of parts joined by a separator of sepLen characters
RECURSIVE SumSeq(_)
SumSeq(q) == IF q = << >> THEN 0 ELSE Head(q) + SumSeq(Tail(q))

JoinedLen(parts, sepLen) ==
  IF parts = << >> THEN 0 ELSE SumSeq(parts) + sepLen * (Len(parts) - 1)

\* metadata.author is a list of names joined by ", "
AuthorLen(author) == JoinedLen(author, 2)

\* metadata.content is a list of paragraphs joined by a blank line
ContentLen(content) == JoinedLen(content.paras, 2)

createRichTextProperty(text) ==
  [kind |-> "rich_text", content |-> << substring0(text, RichTextLimit) >>]

createSelectProperty(name) ==
  [kind |-> "select", content |-> << substring0(name, SelectLimit) >>]

createMultiSelectProperty(names) ==
  [kind |-> "multi_select",
   content |-> [k \in 1..Len(names) |-> substring0(names[k], SelectLimit)]]

createTitleProperty(text) == [kind |-> "title", content |-> << text >>]

IsLeap(y) == (y % 4 = 0 /\ y % 100 # 0) \/ y % 400 = 0

DaysInMonth(y, m) ==
  IF m = 2 THEN (IF IsLeap(y) THEN 29 ELSE 28)
  ELSE IF m \in {4, 6, 9, 11} THEN 30 ELSE 31

\* new Date(dateStr) on a YYYY-MM-DD text <<y, m, d>>: a calendar date gives
\* { date: { start } } with the same day (UTC), anything else { date: null }
createDateProperty(dateStr) ==
  IF /\ Len(dateStr) = 3
     /\ dateStr[2] \in 1..12
     /\ dateStr[3] \in 1..DaysInMonth(dateStr[1], dateStr[2])
    THEN [kind |-> "date", content |-> dateStr]
    ELSE [kind |-> "date", content |-> << >>]

\* split on separators, trim, drop the empty pieces
parseAuthors(authorText) == SelectSeq(authorText, LAMBDA n : n > 0)

\* the paragraphs of the content, at most 15, each sent whole
createContentBlocks(content) ==
  LET paragraphs == SelectSeq(content.paras, LAMBDA p : p > 0)
      kept == slice(paragraphs, 0, MaxParagraphs)
  IN  [k \in 1..Len(kept) |-> [kind |-> "rich_text", content |-> << kept[k] >>]]

\* first sentence (content.sentence is where it ends, 0: no terminator), or
\* the first 150 characters followed by "..." when the content is longer
createSimpleSummary(content) ==
  IF ContentLen(content) = 0 THEN 0
  ELSE IF content.sentence > 0 THEN content.sentence
  ELSE substring0(ContentLen(content), SummaryChars)
         + (IF ContentLen(content) > SummaryChars THEN 3 ELSE 0)

\* properties[name] = value on an object kept in insertion order
SetProp(properties, name, value) ==
  IF \E k \in 1..Len(properties) : properties[k].name = name
    THEN [k \in 1..Len(properties) |->
            IF properties[k].name = name
              THEN [name |-> name, value |-> value]
              ELSE properties[k]]
    ELSE Append(properties, [name |-> name, value |-> value])

PublicationStep(properties, metadata, m) ==
  IF metadata.publication > 0 /\ m.publicationPropertyType # NoType
    THEN IF m.publicationPropertyType = "select"
           THEN SetProp(properties, m.publicationProperty,
                        createSelectProperty(metadata.publication))
         ELSE IF m.publicationPropertyType = "rich_text"
           THEN SetProp(properties, m.publicationProperty,
                        createRichTextProperty(metadata.publication))
         ELSE IF m.publicationPropertyType = "title"
           THEN SetProp(properties, m.publicationProperty,
                        createTitleProperty(metadata.publication))
         ELSE properties
    ELSE properties

AuthorStep(properties, metadata, m) ==
  IF metadata.author # << >> /\ m.authorPropertyType # NoType
    THEN IF m.authorPropertyType = "multi_select"
           THEN SetProp(properties, m.authorProperty,
                        createMultiSelectProperty(parseAuthors(metadata.author)))
         ELSE IF m.authorPropertyType = "select"
           THEN SetProp(properties, m.authorProperty,
                        createSelectProperty(AuthorLen(metadata.author)))
         ELSE IF m.authorPropertyType = "rich_text"
           THEN SetProp(properties, m.authorProperty,
                        createRichTextProperty(AuthorLen(metadata.author)))
         ELSE properties
    ELSE properties

DateStep(properties, metadata, m) ==
  IF metadata.date # << >> /\ m.datePropertyType = "date"
    THEN SetProp(properties, m.dateProperty, createDateProperty(metadata.date))
    ELSE properties

SummaryStep(properties, metadata, m, generateSummary) ==
  IF /\ ContentLen(metadata.content) > 0
     /\ generateSummary
     /\ m.summaryPropertyType # NoType
    THEN LET summary == createSimpleSummary(metadata.content)
         IN  IF m.summaryPropertyType = "rich_text"
               THEN SetProp(properties, m.summaryProperty,
                            createRichTextProperty(summary))
             ELSE IF m.summaryPropertyType = "select"
               THEN SetProp(properties, m.summaryProperty,
                            createSelectProperty(summary))
             ELSE IF m.summaryPropertyType = "multi_select"
               THEN SetProp(properties, m.summaryProperty,
                            createMultiSelectProperty(<< summary >>))
             ELSE properties
    ELSE properties

\* the properties object of one row, filled in the order of the code
BuildProperties(metadata, m, generateSummary) ==
  SummaryStep(
    DateStep(
      AuthorStep(PublicationStep(<< >>, metadata, m), metadata, m),
      metadata, m),
    metadata, m, generateSummary)

\* ------------------------------------------------------------- row tasks
\* page.properties[urlPropertyName2] read as url, rich_text or title; the
\* value has the type the schema gives the property (null: << >>)
ReadUrl(page, type) ==
  IF type = "url" /\ page.link # << >> THEN page.link
  ELSE IF type = "rich_text" /\ page.link # << >> THEN page.link
  ELSE IF type = "title" /\ page.link # << >> THEN page.link
  ELSE << >>

\* a URL test without the prefix check
ValidUrlAnyText(url) == url # << >>

\* the negation of "!url || !url.startsWith('http')"
HttpPrefix == <<"h","t","t","p">>

ValidUrl(url) == url # << >> /\ startsWith(url, HttpPrefix)

\* a row task either stops with its status line and its counter increments,
\* or suspends on the call it has just issued
Fulfil(kind, ds, df) == [tpc |-> "fulfilled", line |-> kind, ds |-> ds, df |-> df]

Suspend(call) == [tpc |-> call, line |-> "", ds |-> 0, df |-> 0]

\* a row catch that counts the failure and throws again
RowCatchRethrow == [tpc |-> "rejected", line |-> "", ds |-> 0, df |-> 1]

\* the catch of the row task: failureCount++ and the "Failed to extract" line
RowCatch == Fulfil("failed", 0, 1)

\* successCount++ and the "Successfully extracted" line
Succeed == Fulfil("success", 1, 0)

\* the inner catch of a call that failed: the line is returned only when
\* silentErrors is off (the catches around the payload builders are not
\* modelled: the builders do not throw on the texts they are given)
ErrorLine(kind) == Fulfil(kind, 0, 0)

\* from "if (content)" on: list the blocks of the page, or finish
ContentStep(page) ==
  IF ContentLen(page.metadata.content) > 0 THEN Suspend("list") ELSE Succeed

\* from "if (Object.keys(properties).length > 0)" on
PropertiesStep(page, m, a) ==
  IF Len(BuildProperties(page.metadata, m, a.generateSummary)) > 0
    THEN Suspend("update")
    ELSE ContentStep(page)

\* the synchronous start of a row task, up to its first await
StartTask(page, urlType) ==
  IF ValidUrl(ReadUrl(page, urlType)) THEN Suspend("fetch") ELSE Fulfil("noUrl", 0, 0)

\* a fetch whose failure is swallowed, the row going on to its writes
OnFetchSwallowed(ok, page, m, a) == PropertiesStep(page, m, a)

OnFetch(ok, page, m, a) == IF ok THEN PropertiesStep(page, m, a) ELSE RowCatch

OnUpdate(ok, page, a) ==
  IF ok THEN ContentStep(page)
  ELSE IF ~a.silentErrors THEN ErrorLine("errUpdate")
  ELSE ContentStep(page)

\* a threshold test that lets a page of exactly three blocks through
OnListAtMost(ok, page, a) ==
  IF ok
    THEN IF page.blocks <= BlockThreshold THEN Suspend("append") ELSE Succeed
  ELSE IF ~a.silentErrors THEN ErrorLine("errContent")
  ELSE Succeed

OnList(ok, page, a) ==
  IF ok
    THEN IF page.blocks < BlockThreshold THEN Suspend("append") ELSE Succeed
  ELSE IF ~a.silentErrors THEN ErrorLine("errContent")
  ELSE Succeed

OnAppend(ok, page, a) ==
  IF ok THEN Succeed
  ELSE IF ~a.silentErrors THEN ErrorLine("errContent")
  ELSE Succeed

\* --------------------------------------------------------------- inputs
Http == <<"h","t","t","p","s",":","/","/","a">>

Ftp == <<"f","t","p",":","/","/","a">>

NoDate == << >>

MetaShort ==
  [publication |-> 12, author |-> << 8, 10 >>, date |-> << 2021, 1, 5 >>,
   content |-> [paras |-> << 120, 60 >>, sentence |-> 40]]

MetaLong ==
  [publication |-> 130, author |-> << 120 >>, date |-> NoDate,
   content |-> [paras |-> << 2400 >>, sentence |-> 0]]

MetaEmpty ==
  [publication |-> 0, author |-> << >>, date |-> NoDate,
   content |-> [paras |-> << >>, sentence |-> 0]]

\* the queried pages: the text of the URL property, what the page at that URL
\* yields, and the number of blocks the page already has
Pages ==
  { [link |-> Ftp, metadata |-> MetaEmpty, blocks |-> 0],
    [link |-> Http, metadata |-> MetaShort, blocks |-> 3],
    [link |-> Http, metadata |-> MetaLong, blocks |-> 2] }

StandardSchema ==
  << [name |-> <<"N","a","m","e">>, type |-> "title"],
     [name |-> <<"U","R","L">>, type |-> "url"],
     [name |-> <<"P","u","b","l","i","c","a","t","i","o","n">>, type |-> "select"],
     [name |-> <<"A","u","t","h","o","r">>, type |-> "multi_select"],
     [name |-> <<"D","a","t","e">>, type |-> "date"],
     [name |-> <<"S","u","m","m","a","r","y">>, type |-> "rich_text"] >>

\* names that match a candidate only up to case or as a part, and a title
\* property that holds the URL
LooseSchema ==
  << [name |-> <<"l","i","n","k">>, type |-> "title"],
     [name |-> <<"S","i","t","e"," ","n","a","m","e">>, type |-> "rich_text"],
     [name |-> <<"W","r","i","t","e","r","s">>, type |-> "select"],
     [name |-> <<"T","L","D","R">>, type |-> "select"] >>

\* a database with few columns, the URL kept as text
SmallSchema ==
  << [name |-> <<"N","a","m","e">>, type |-> "title"],
     [name |-> <<"W","e","b","s","i","t","e">>, type |-> "rich_text"],
     [name |-> <<"B","y">>, type |-> "rich_text"] >>

\* names whose best match is not the first candidate's: "Writer" exactly
\* against "author" up to case, "tldr" up to case against "My Summary" as a
\* part; and destinations of kinds the write mapper has no branch for
TierSchema ==
  << [name |-> <<"N","a","m","e">>, type |-> "title"],
     [name |-> <<"U","R","L">>, type |-> "url"],
     [name |-> <<"S","o","u","r","c","e">>, type |-> "number"],
     [name |-> <<"a","u","t","h","o","r">>, type |-> "rich_text"],
     [name |-> <<"W","r","i","t","e","r">>, type |-> "select"],
     [name |-> <<"P","u","b","l","i","s","h","e","d">>, type |-> "rich_text"],
     [name |-> <<"M","y"," ","S","u","m","m","a","r","y">>, type |-> "rich_text"],
     [name |-> <<"t","l","d","r">>, type |-> "checkbox"] >>

\* the calls with every property name left to auto-detection
PlainArgs ==
  [ urlPropertyName : {NoName},
    publicationPropertyName : {NoName},
    authorPropertyName : {NoName},
    datePropertyName : {NoName},
    summaryPropertyName : {NoName},
    batchSize : 1..MaxBatch,
    generateSummary : {TRUE},
    silentErrors : BOOLEAN ]

DefaultArgs == CHOOSE a \in PlainArgs : a.batchSize = 1 /\ a.silentErrors

\* the tool calls of the model: a database and the arguments
Requests ==
  ({StandardSchema} \X PlainArgs)
  \cup { << LooseSchema, [DefaultArgs EXCEPT !.silentErrors = FALSE] >>,
         << SmallSchema, DefaultArgs >>,
         << TierSchema, DefaultArgs >>,
         << StandardSchema, [DefaultArgs EXCEPT !.generateSummary = FALSE] >>,
         << StandardSchema,
            [DefaultArgs EXCEPT !.urlPropertyName = <<"L","i","n","k">>,
                                !.publicationPropertyName = <<"S","u","m","m","a","r","y">>] >> }

RowLists == UNION { [1..n -> Pages] : n \in 0..MaxRows }

\* ------------------------------------------------------------------ state
VARIABLES
  args,          \* the arguments of the tool call
  databaseInfo,  \* the schema notion.databases.retrieve returns
  rows,          \* response.results of notion.databases.query
  pc,            \* where the handler is suspended: retrieve, query, await, delay, returned
  mapping,       \* the resolved property names and types
  i,             \* the loop variable of the batch loop
  task,          \* per row: where its task is suspended, and the line it returned
  results,       \* the results array
  successCount,
  failureCount,
  setup,         \* outcome of databases.retrieve and databases.query
  issued,        \* per row: how often each call was issued
  outcome,       \* per row: how each call ended (none, ok, failed)
  sent,          \* per row: the payloads handed to pages.update and blocks.children.append
  dest,          \* per row: what the destination page holds
  batchLog,      \* the batches started so far, each the set of its rows
  delayLog,      \* for each delay, the number of batches started before it
  ret,           \* the value the handler returned
  prev,          \* the record of an earlier call with the same inputs
  input,         \* the arguments of the extractor function under study
  frame          \* that function's position, local variables and return value

vars ==
  << args, databaseInfo, rows, pc, mapping, i, task, results, successCount,
     failureCount, setup, issued, outcome, sent, dest, batchLog, delayLog,
     ret, prev, input, frame >>

N == Len(rows)

Rows == 1..N

NoMapping == [resolved |-> FALSE]

NoReturn == [returned |-> FALSE]

NoPrev == [ran |-> FALSE]

\* no extractor function is under study
NoInput == [fn |-> "none"]

NoFrame == [pc |-> "none"]

Calls == {"fetch", "update", "list", "append"}

IdleTask == [tpc |-> "idle", line |-> ""]

FreshRun(r) ==
  /\ pc = "retrieve"
  /\ mapping = NoMapping
  /\ i = 0
  /\ task = [k \in 1..Len(r) |-> IdleTask]
  /\ results = << >>
  /\ successCount = 0
  /\ failureCount = 0
  /\ setup = [retrieve |-> "none", query |-> "none"]
  /\ issued = [k \in 1..Len(r) |-> [c \in Calls |-> 0]]
  /\ outcome = [k \in 1..Len(r) |-> [c \in Calls |-> "none"]]
  /\ sent = [k \in 1..Len(r) |-> [properties |-> << >>, children |-> << >>]]
  /\ dest = [k \in 1..Len(r) |-> [properties |-> << >>, blocks |-> r[k].blocks]]
  /\ batchLog = << >>
  /\ delayLog = << >>
  /\ ret = NoReturn

\* the handler has been called and awaits notion.databases.retrieve
Init ==
  /\ \E q \in Requests : databaseInfo = q[1] /\ args = q[2]
  /\ rows \in RowLists
  /\ prev = NoPrev
  /\ input = NoInput
  /\ frame = NoFrame
  /\ FreshRun(rows)

\* a call ends well or fails; a call the earlier run also made ends as it did there
Replayed(status) == IF status = "ok" THEN {TRUE} ELSE IF status = "failed" THEN {FALSE} ELSE BOOLEAN

SetupOutcomes(call) == IF prev.ran THEN Replayed(prev.setup[call]) ELSE BOOLEAN

RowOutcomes(r, call) == IF prev.ran THEN Replayed(prev.outcome[r][call]) ELSE BOOLEAN

Status(ok) == IF ok THEN "ok" ELSE "failed"

\* the outer catch: one error result
OuterCatch == [returned |-> TRUE, isError |-> TRUE, processed |-> 0, successful |-> 0, failed |-> 0, details |-> << >>]

\* the report: "Processed N URLs / s successful / f failed / Details"
Report(res) ==
  [returned |-> TRUE, isError |-> FALSE, processed |-> successCount + failureCount,
   successful |-> successCount, failed |-> failureCount, details |-> res]

\* the "Using field mapping" entry pushed before the loop
MappingLine == [row |-> 0, kind |-> "mapping"]

UrlType == getPropertyType(databaseInfo, mapping.urlPropertyName2)

\* a delay test that is off by one
NeedDelayOffByOne(at) == at + args.batchSize <= N

\* i + batchSize < response.results.length
NeedDelay(at) == at + args.batchSize < N

\* batchLog and delayLog record the run and are kept up to LogCap entries,
\* more than a run with a batch size of one or more can make
LogCap == MaxRows + 1

Logged(log, entry) == IF Len(log) < LogCap THEN Append(log, entry) ELSE log

\* the loop test at i = at with the results array res: either the next batch is
\* mapped to its tasks, each run to its first await, or the report is returned
LoopTop(at, res) ==
  /\ i' = at
  /\ results' = res
  /\ IF at < N
       THEN LET batch == sliceRows(N, at, at + args.batchSize)
                started == [r \in batch |-> StartTask(rows[r], UrlType)]
            IN  /\ pc' = "await"
                /\ task' = [r \in Rows |->
                              IF r \in batch
                                THEN [tpc |-> started[r].tpc, line |-> started[r].line]
                                ELSE task[r]]
                /\ issued' = [r \in Rows |->
                                IF r \in batch /\ started[r].tpc = "fetch"
                                  THEN [issued[r] EXCEPT !["fetch"] = @ + 1]
                                  ELSE issued[r]]
                /\ batchLog' = Logged(batchLog, batch)
                /\ ret' = ret
       ELSE /\ pc' = "returned"
            /\ ret' = Report(res)
            /\ UNCHANGED << task, issued, batchLog >>

RetrieveSettled ==
  /\ pc = "retrieve"
  /\ \E ok \in SetupOutcomes("retrieve") :
       /\ setup' = [setup EXCEPT !.retrieve = Status(ok)]
       /\ IF ok
            THEN /\ mapping' = FieldMapping(databaseInfo, args)
                 /\ pc' = "query"
                 /\ ret' = ret
            ELSE /\ pc' = "returned"
                 /\ ret' = OuterCatch
                 /\ mapping' = mapping
  /\ UNCHANGED << args, databaseInfo, rows, i, task, results, successCount,
                  failureCount, issued, outcome, sent, dest, batchLog,
                  delayLog, prev, input, frame >>

\* a query whose failure is taken for an answer
QuerySettledUnchecked ==
  /\ pc = "query"
  /\ \E ok \in SetupOutcomes("query") :
       /\ setup' = [setup EXCEPT !.query = Status(ok)]
       /\ LoopTop(0, << MappingLine >>)
  /\ UNCHANGED << args, databaseInfo, rows, mapping, successCount,
                  failureCount, outcome, sent, dest, delayLog, prev, input, frame >>

QuerySettled ==
  /\ pc = "query"
  /\ \E ok \in SetupOutcomes("query") :
       /\ setup' = [setup EXCEPT !.query = Status(ok)]
       /\ IF ok
            THEN LoopTop(0, << MappingLine >>)
            ELSE /\ pc' = "returned"
                 /\ ret' = OuterCatch
                 /\ UNCHANGED << i, task, results, issued, batchLog >>
  /\ UNCHANGED << args, databaseInfo, rows, mapping, successCount,
                  failureCount, outcome, sent, dest, delayLog, prev, input, frame >>

\* a resumption whose writes all land in one record, that of the first row
ResumeSharedRecord(r, call, ok, next) ==
  /\ task' = [task EXCEPT ![r] = [tpc |-> next.tpc, line |-> next.line]]
  /\ successCount' = successCount + next.ds
  /\ failureCount' = failureCount + next.df
  /\ outcome' = [outcome EXCEPT ![r][call] = Status(ok)]
  /\ issued' = IF next.tpc \in Calls
                 THEN [issued EXCEPT ![r][next.tpc] = @ + 1]
                 ELSE issued
  /\ sent' = IF next.tpc = "update"
               THEN [sent EXCEPT ![r].properties =
                       BuildProperties(rows[r].metadata, mapping, args.generateSummary)]
             ELSE IF next.tpc = "append"
               THEN [sent EXCEPT ![r].children = createContentBlocks(rows[r].metadata.content)]
             ELSE sent
  /\ dest' = IF call = "update" /\ ok
               THEN [dest EXCEPT ![1].properties = sent[r].properties]
             ELSE IF call = "append" /\ ok
               THEN [dest EXCEPT ![1].blocks = @ + Len(sent[r].children)]
             ELSE dest
  /\ UNCHANGED << args, databaseInfo, rows, pc, mapping, i, results, setup,
                  batchLog, delayLog, ret, prev, input, frame >>

\* row r resumes after its pending call ended with ok, and runs to next
Resume(r, call, ok, next) ==
  /\ task' = [task EXCEPT ![r] = [tpc |-> next.tpc, line |-> next.line]]
  /\ successCount' = successCount + next.ds
  /\ failureCount' = failureCount + next.df
  /\ outcome' = [outcome EXCEPT ![r][call] = Status(ok)]
  /\ issued' = IF next.tpc \in Calls
                 THEN [issued EXCEPT ![r][next.tpc] = @ + 1]
                 ELSE issued
  /\ sent' = IF next.tpc = "update"
               THEN [sent EXCEPT ![r].properties =
                       BuildProperties(rows[r].metadata, mapping, args.generateSummary)]
             ELSE IF next.tpc = "append"
               THEN [sent EXCEPT ![r].children = createContentBlocks(rows[r].metadata.content)]
             ELSE sent
  /\ dest' = IF call = "update" /\ ok
               THEN [dest EXCEPT ![r].properties = sent[r].properties]
             ELSE IF call = "append" /\ ok
               THEN [dest EXCEPT ![r].blocks = @ + Len(sent[r].children)]
             ELSE dest
  /\ UNCHANGED << args, databaseInfo, rows, pc, mapping, i, results, setup,
                  batchLog, delayLog, ret, prev, input, frame >>

FetchSettled(r) ==
  /\ pc = "await" /\ task[r].tpc = "fetch"
  /\ \E ok \in RowOutcomes(r, "fetch") :
       Resume(r, "fetch", ok, OnFetch(ok, rows[r], mapping, args))

UpdateSettled(r) ==
  /\ pc = "await" /\ task[r].tpc = "update"
  /\ \E ok \in RowOutcomes(r, "update") :
       Resume(r, "update", ok, OnUpdate(ok, rows[r], args))

ListSettled(r) ==
  /\ pc = "await" /\ task[r].tpc = "list"
  /\ \E ok \in RowOutcomes(r, "list") :
       Resume(r, "list", ok, OnList(ok, rows[r], args))

AppendSettled(r) ==
  /\ pc = "await" /\ task[r].tpc = "append"
  /\ \E ok \in RowOutcomes(r, "append") :
       Resume(r, "append", ok, OnAppend(ok, rows[r], args))

CurrentBatch == sliceRows(N, i, i + args.batchSize)

\* Promise.all(batchPromises) settles: rejected as soon as one task is
\* rejected, fulfilled once every task is fulfilled
AllRejected == \E r \in CurrentBatch : task[r].tpc = "rejected"

\* a join that goes on as soon as one task is done
AnyFulfilled == \E r \in sliceRows(N, i, i + args.batchSize) : task[r].tpc = "fulfilled"

AllFulfilled == \A r \in CurrentBatch : task[r].tpc = "fulfilled"

\* the values of Promise.all, in the order of the batch
RECURSIVE LinesOf(_, _)
LinesOf(a, b) ==
  IF a > b THEN << >>
  ELSE << [row |-> a, kind |-> task[a].line] >> \o LinesOf(a + 1, b)

\* the lines in the order the tasks finish when the rows without a URL, which
\* finish at once, come before the rows that wait for a fetch
RECURSIVE LinesWhere(_, _, _)
LinesWhere(a, b, sync) ==
  IF a > b THEN << >>
  ELSE (IF (task[a].line = "noUrl") = sync
          THEN << [row |-> a, kind |-> task[a].line] >>
          ELSE << >>) \o LinesWhere(a + 1, b, sync)

BatchResultsAsCompleted ==
  IF sliceRows(N, i, i + args.batchSize) = {} THEN << >>
  ELSE LinesWhere(MinOf(sliceRows(N, i, i + args.batchSize)),
                  MaxOf(sliceRows(N, i, i + args.batchSize)), TRUE)
       \o LinesWhere(MinOf(sliceRows(N, i, i + args.batchSize)),
                     MaxOf(sliceRows(N, i, i + args.batchSize)), FALSE)

BatchResults ==
  IF CurrentBatch = {} THEN << >>
  ELSE LinesOf(MinOf(CurrentBatch), MaxOf(CurrentBatch))

BatchSettledNow == AllRejected \/ AllFulfilled

\* the handler resumes after "await Promise.all(batchPromises)": a rejection
\* goes to the outer catch; otherwise the lines are pushed, and the handler
\* either sleeps before the next batch or goes on with the loop
BatchSettled ==
  /\ pc = "await"
  /\ BatchSettledNow
  /\ IF AllRejected
       THEN /\ pc' = "returned"
            /\ ret' = OuterCatch
            /\ UNCHANGED << i, task, results, issued, batchLog, delayLog >>
       ELSE IF NeedDelay(i)
         THEN /\ pc' = "delay"
              /\ results' = results \o BatchResults
              /\ delayLog' = Logged(delayLog, Len(batchLog))
              /\ UNCHANGED << i, task, issued, batchLog, ret >>
         ELSE /\ LoopTop(i + args.batchSize, results \o BatchResults)
              /\ delayLog' = delayLog
  /\ UNCHANGED << args, databaseInfo, rows, mapping, successCount,
                  failureCount, setup, outcome, sent, dest, prev, input, frame >>

\* the one-second timer between two batches fires
DelayElapsed ==
  /\ pc = "delay"
  /\ LoopTop(i + args.batchSize, results)
  /\ UNCHANGED << args, databaseInfo, rows, mapping, successCount,
                  failureCount, setup, outcome, sent, dest, delayLog, prev, input, frame >>

Next ==
  \/ RetrieveSettled
  \/ QuerySettled
  \/ \E r \in Rows : FetchSettled(r)
  \/ \E r \in Rows : UpdateSettled(r)
  \/ \E r \in Rows : ListSettled(r)
  \/ \E r \in Rows : AppendSettled(r)
  \/ BatchSettled
  \/ DelayElapsed

Spec == Init /\ [][Next]_vars

\* the tool is called again on the same database with silentErrors switched,
\* and every call the first run made ends as it did there
Rerun ==
  /\ pc = "returned"
  /\ ~prev.ran
  /\ prev' = [ran |-> TRUE, silentErrors |-> args.silentErrors, setup |-> setup,
              outcome |-> outcome, issued |-> issued,
              successCount |-> successCount, failureCount |-> failureCount,
              isError |-> ret.isError]
  /\ args' = [args EXCEPT !.silentErrors = ~@]
  /\ pc' = "retrieve"
  /\ mapping' = NoMapping
  /\ i' = 0
  /\ task' = [k \in Rows |-> IdleTask]
  /\ results' = << >>
  /\ successCount' = 0
  /\ failureCount' = 0
  /\ setup' = [retrieve |-> "none", query |-> "none"]
  /\ issued' = [k \in Rows |-> [c \in Calls |-> 0]]
  /\ outcome' = [k \in Rows |-> [c \in Calls |-> "none"]]
  /\ sent' = [k \in Rows |-> [properties |-> << >>, children |-> << >>]]
  /\ dest' = [k \in Rows |-> [properties |-> << >>, blocks |-> rows[k].blocks]]
  /\ batchLog' = << >>
  /\ delayLog' = << >>
  /\ ret' = NoReturn
  /\ UNCHANGED << databaseInfo, rows, input, frame >>

\* the first of the two calls: the standard database, the largest batch size
InitPair ==
  /\ databaseInfo = StandardSchema
  /\ args \in { a \in PlainArgs : a.batchSize = MaxBatch }
  /\ rows \in RowLists
  /\ prev = NoPrev
  /\ input = NoInput
  /\ frame = NoFrame
  /\ FreshRun(rows)

NextPair == Next \/ Rerun

SpecPair == InitPair /\ [][NextPair]_vars

\* ------------------------------------------------------ author validator
\* the white space of the texts of this model is the blank
IsSpace(c) == c = " "

\* String.prototype.trimStart, trimEnd and trim
RECURSIVE trimStart(_)
trimStart(s) ==
  IF s # << >> /\ IsSpace(Head(s)) THEN trimStart(Tail(s)) ELSE s

RECURSIVE trimEnd(_)
trimEnd(s) ==
  IF s # << >> /\ IsSpace(s[Len(s)]) THEN trimEnd(SubSeq(s, 1, Len(s) - 1)) ELSE s

trim(s) == trimEnd(trimStart(s))

\* the length of the run of white space a text starts with
SpaceRun(s) == Len(s) - Len(trimStart(s))

\* String.prototype.substring(n) on a sequence of characters
DropChars(s, n) == SubSeq(s, n + 1, Len(s))

\* replace(/\s+/g, ' ')
RECURSIVE NormalizeSpaces(_)
NormalizeSpaces(s) ==
  IF s = << >> THEN << >>
  ELSE IF IsSpace(Head(s)) THEN << " " >> \o NormalizeSpaces(trimStart(s))
  ELSE << Head(s) >> \o NormalizeSpaces(Tail(s))

\* the length of the match of /^word\s+/i at the start of s, 0 when none
PrefixMatch(s, word) ==
  IF /\ startsWith(toLowerCase(s), word)
     /\ SpaceRun(DropChars(s, Len(word))) > 0
    THEN Len(word) + SpaceRun(DropChars(s, Len(word)))
    ELSE 0

\* replace(/^by\s+/i, '')
StripBy(s) == DropChars(s, PrefixMatch(s, <<"b","y">>))

\* the length of the match of /,\s*|\s+and\s+/ at the start of s, 0 when none
SeparatorAt(s) ==
  IF s = << >> THEN 0
  ELSE IF Head(s) = "," THEN 1 + SpaceRun(Tail(s))
  ELSE LET rest == trimStart(s)
       IN  IF /\ SpaceRun(s) > 0
              /\ startsWith(rest, <<"a","n","d">>)
              /\ SpaceRun(DropChars(rest, 3)) > 0
             THEN SpaceRun(s) + 3 + SpaceRun(DropChars(rest, 3))
             ELSE 0

\* String.prototype.split(/,\s*|\s+and\s+/); cur is the piece read so far
RECURSIVE SplitAuthors(_, _)
SplitAuthors(s, cur) ==
  IF s = << >> THEN << cur >>
  ELSE IF SeparatorAt(s) > 0
    THEN << cur >> \o SplitAuthors(DropChars(s, SeparatorAt(s)), << >>)
  ELSE SplitAuthors(Tail(s), Append(cur, Head(s)))

\* String.prototype.split(' ')
RECURSIVE SplitWords(_, _)
SplitWords(s, cur) ==
  IF s = << >> THEN << cur >>
  ELSE IF Head(s) = " " THEN << cur >> \o SplitWords(Tail(s), << >>)
  ELSE SplitWords(Tail(s), Append(cur, Head(s)))

\* new RegExp(nameParts.join('\\s+'), 'i').test(rawHtml) for two parts made
\* of letters: the first part, white space, the second part
SpacedPairIn(rawHtml, nameParts) ==
  \E k \in 0..Len(rawHtml) :
    LET t == toLowerCase(DropChars(rawHtml, k))
        u == DropChars(t, Len(nameParts[1]))
    IN  /\ startsWith(t, toLowerCase(nameParts[1]))
        /\ SpaceRun(u) > 0
        /\ startsWith(trimStart(u), toLowerCase(nameParts[2]))

\* Math.ceil(n * 0.5)
CeilHalf(n) == (n + 1) \div 2

\* nameParts.length === 2 with both parts of at most three characters
ShortPair(nameParts) ==
  Len(nameParts) = 2 /\ Len(nameParts[1]) <= 3 /\ Len(nameParts[2]) <= 3

\* nameParts.filter(part => part.length >= 4)
SignificantParts(nameParts) == { k \in 1..Len(nameParts) : Len(nameParts[k]) >= 4 }

\* significantParts > 0 && foundCount >= Math.ceil(significantParts * 0.5)
HalfFound(nameParts, rawHtml) ==
  LET found == { k \in SignificantParts(nameParts) : includes(rawHtml, nameParts[k]) }
  IN  /\ Cardinality(SignificantParts(nameParts)) > 0
      /\ Cardinality(found) >= CeilHalf(Cardinality(SignificantParts(nameParts)))

\* the body of the loop over authorList: whether validAuthorsCount is
\* incremented for singleAuthor
SingleAuthorFound(singleAuthor, rawHtml) ==
  IF Len(singleAuthor) < 4 THEN FALSE
  ELSE IF includes(singleAuthor, << " " >>)
    THEN LET nameParts == SplitWords(singleAuthor, << >>)
         IN  IF ShortPair(nameParts) /\ SpacedPairIn(rawHtml, nameParts)
               THEN TRUE
               ELSE HalfFound(nameParts, rawHtml)
  ELSE Len(singleAuthor) >= 5 /\ includes(rawHtml, singleAuthor)

RECURSIVE validAuthorsCount(_, _)
validAuthorsCount(authorList, rawHtml) ==
  IF authorList = << >> THEN 0
  ELSE (IF SingleAuthorFound(Head(authorList), rawHtml) THEN 1 ELSE 0)
       + validAuthorsCount(Tail(authorList), rawHtml)

\* author.includes(',') || author.includes(' and ')
isMultipleAuthors(author) ==
  includes(author, << "," >>) \/ includes(author, << " ","a","n","d"," " >>)

cleanAuthor(author) == toLowerCase(trim(NormalizeSpaces(StripBy(author))))

\* a list test that wants more than half of the authors
ListValidStrictly(authorList, rawHtml) ==
  validAuthorsCount(authorList, rawHtml) > CeilHalf(Len(authorList))

\* validAuthorsCount >= Math.ceil(authorList.length * 0.5)
ListValid(authorList, rawHtml) ==
  validAuthorsCount(authorList, rawHtml) >= CeilHalf(Len(authorList))

\* a single-author branch that does not ask for a second word
SingleValidAnyWord(clean, rawHtml) ==
  LET nameParts == SplitWords(clean, << >>)
  IN  IF ShortPair(nameParts) THEN SpacedPairIn(rawHtml, nameParts)
      ELSE HalfFound(nameParts, rawHtml)

\* the single author case, from "if (!cleanAuthor.includes(' '))" on
SingleValid(clean, rawHtml) ==
  LET nameParts == SplitWords(clean, << >>)
  IN  IF ~includes(clean, << " " >>) THEN FALSE
      ELSE IF ShortPair(nameParts) THEN SpacedPairIn(rawHtml, nameParts)
      ELSE HalfFound(nameParts, rawHtml)

validateExtractedAuthor(author, rawHtml) ==
  IF Len(author) < 4 THEN FALSE
  ELSE IF isMultipleAuthors(author)
    THEN ListValid(SplitAuthors(cleanAuthor(author), << >>), rawHtml)
  ELSE SingleValid(cleanAuthor(author), rawHtml)

\* ----------------------------------------------- inputs of the validator
\* the most sub-names of a candidate of the model
MaxAuthors == 2

\* the sub-names: a single word, a full name, a name of two short parts, a
\* word of four letters, and nothing (a separator at the end of the text)
SubNameTexts ==
  { <<"S","t","a","f","f">>,
    <<"J","a","n","e"," ","S","m","i","t","h">>,
    <<"A","l"," ","W","u">>,
    <<"C","h","e","r">>,
    << >> }

\* the separators a list of authors is written with
SeparatorTexts == { <<",">>, <<","," ">>, <<" ","a","n","d"," ">> }

RECURSIVE JoinTexts(_, _)
JoinTexts(texts, seps) ==
  IF Len(texts) = 0 THEN << >>
  ELSE IF Len(texts) = 1 THEN texts[1]
  ELSE texts[1] \o seps[1] \o JoinTexts(Tail(texts), Tail(seps))

\* the candidates: up to MaxAuthors sub-names, with or without "By " in front
AuthorTexts ==
  LET lists == UNION { { JoinTexts(t, s) : t \in [1..n -> SubNameTexts],
                                           s \in [1..(n - 1) -> SeparatorTexts] } :
                       n \in 1..MaxAuthors }
  IN  lists \cup { <<"B","y"," ">> \o a : a \in lists }

\* $.html().toLowerCase() of four pages
RawHtmlTexts ==
  { << >>,
    <<"b","y"," ","j","a","n","e"," ","s","m","i","t","h",","," ","a","l"," "," ","w","u"," ","a","n","d"," ","c","h","e","r">>,
    <<"s","t","a","f","f"," ","w","r","i","t","e","r">>,
    <<"t","h","e"," ","s","m","i","t","h","s","o","n","i","a","n">> }

\* the tool handler at its entry, taking no step
handlerVars ==
  << args, databaseInfo, rows, pc, mapping, i, task, results, successCount,
     failureCount, setup, issued, outcome, sent, dest, batchLog, delayLog,
     ret, prev >>

HandlerIdle ==
  /\ databaseInfo = StandardSchema
  /\ args = DefaultArgs
  /\ rows = << >>
  /\ prev = NoPrev
  /\ FreshRun(<< >>)

\* validateExtractedAuthor is called with a candidate and a page text
InitValidator ==
  /\ input \in [fn : {"validateExtractedAuthor"}, author : AuthorTexts,
                 rawHtml : RawHtmlTexts]
  /\ frame = [pc |-> "called"]
  /\ HandlerIdle

ValidatorReturns ==
  /\ input.fn = "validateExtractedAuthor"
  /\ frame.pc = "called"
  /\ frame' = [pc |-> "returned",
               value |-> validateExtractedAuthor(input.author, input.rawHtml)]
  /\ UNCHANGED << input, handlerVars >>

NextValidator == ValidatorReturns

SpecValidator == InitValidator /\ [][NextValidator]_vars

\* --------------------------------------------------------- extractAuthor
\* the first of the words that s starts with, each followed by white space:
\* the prefix that replace(/^w1\s+|^w2\s+|.../i, '') removes
RECURSIVE StripPrefix(_, _)
StripPrefix(s, words) ==
  IF words = << >> THEN s
  ELSE IF PrefixMatch(s, Head(words)) > 0
    THEN DropChars(s, PrefixMatch(s, Head(words)))
  ELSE StripPrefix(s, Tail(words))

\* replace(/^by\s+|^byline:\s+|^author[s]?:\s+/i, '')
BylinePrefixes ==
  << <<"b","y">>, <<"b","y","l","i","n","e",":">>,
     <<"a","u","t","h","o","r",":">>, <<"a","u","t","h","o","r","s",":">> >>

\* replace(/\s+and\s+/g, ', ')
RECURSIVE AndToComma(_)
AndToComma(s) ==
  IF s = << >> THEN << >>
  ELSE IF Head(s) # "," /\ SeparatorAt(s) > 0
    THEN << ",", " " >> \o AndToComma(DropChars(s, SeparatorAt(s)))
  ELSE << Head(s) >> \o AndToComma(Tail(s))

\* replace(/\s*,\s*/g, ', ')
RECURSIVE SpaceCommas(_)
SpaceCommas(s) ==
  IF s = << >> THEN << >>
  ELSE IF startsWith(trimStart(s), << "," >>)
    THEN << ",", " " >> \o SpaceCommas(trimStart(Tail(trimStart(s))))
  ELSE << Head(s) >> \o SpaceCommas(Tail(s))

\* the text of a container or of a byline element made a list of authors
ProcessByline(text) ==
  trim(SpaceCommas(AndToComma(StripPrefix(trim(text), BylinePrefixes))))

\* authorNames.join(', ')
RECURSIVE JoinNames(_)
JoinNames(names) ==
  IF names = << >> THEN << >>
  ELSE IF Len(names) = 1 THEN names[1]
  ELSE names[1] \o << ",", " " >> \o JoinNames(Tail(names))

\* the trimmed texts of a list of elements that are longer than minLen
RECURSIVE TrimmedNames(_, _)
TrimmedNames(texts, minLen) ==
  IF texts = << >> THEN << >>
  ELSE (IF Len(trim(Head(texts))) > minLen THEN << trim(Head(texts)) >> ELSE << >>)
       \o TrimmedNames(Tail(texts), minLen)

\* the text of an element of a multi-author pattern:
\* trim().replace(/^by\s+|^and\s+|^,\s*/i, '').trim()
PatternText(text) ==
  LET t == trim(text)
  IN  IF PrefixMatch(t, <<"b","y">>) > 0 THEN trim(DropChars(t, PrefixMatch(t, <<"b","y">>)))
      ELSE IF PrefixMatch(t, <<"a","n","d">>) > 0
        THEN trim(DropChars(t, PrefixMatch(t, <<"a","n","d">>)))
      ELSE IF startsWith(t, << "," >>) THEN trim(Tail(t))
      ELSE t

\* text && text.length > 2 && !/^(by|and|,)$/i.test(text)
RECURSIVE PatternNames(_)
PatternNames(texts) ==
  IF texts = << >> THEN << >>
  ELSE (IF /\ Len(PatternText(Head(texts))) > 2
           /\ toLowerCase(PatternText(Head(texts))) # <<"a","n","d">>
          THEN << PatternText(Head(texts)) >> ELSE << >>)
       \o PatternNames(Tail(texts))

\* a link that is absent, a text that is no URL, or a URL with its hostname
NoLink == [present |-> FALSE, valid |-> FALSE, hostname |-> << >>]

\* getHostnameFromHtml: the canonical link, else og:url, else ''
getHostnameFromHtml(doc) ==
  IF doc.canonical.present /\ doc.canonical.valid THEN doc.canonical.hostname
  ELSE IF doc.ogUrl.present /\ doc.ogUrl.valid THEN doc.ogUrl.hostname
  ELSE << >>

ApNewsHost == <<"a","p","n","e","w","s",".","c","o","m">>

NytimesHost == <<"n","y","t","i","m","e","s",".","c","o","m">>

\* the outcome of a stretch of extractAuthor: whether it returned, and the
\* authorStr and the attempts it leaves
Go(authorStr, attempts) == [done |-> FALSE, authorStr |-> authorStr, attempts |-> attempts]

Return(authorStr, attempts) == [done |-> TRUE, authorStr |-> authorStr, attempts |-> attempts]

\* "AP News specific extraction"
ApNews(doc, rawHtml, f) ==
  LET authorNames == TrimmedNames(doc.pageAuthorLinks, 0)
  IN  IF authorNames # << >>
        THEN Return(JoinNames(authorNames), f.attempts \o << "apnews", "apnews byline" >>)
        ELSE Go(f.authorStr, Append(f.attempts, "apnews"))

\* "New York Times specific extraction"
Nytimes(doc, rawHtml, f) ==
  LET byline == trim(doc.nytByline)
      byl == trim(StripBy(doc.metaByl))
      authorStr == IF byline # << >> THEN byline
                   ELSE IF doc.metaByl # << >> THEN byl
                   ELSE f.authorStr
      attempts == f.attempts \o << "nyt" >>
                  \o (IF byline # << >> THEN << "nyt byline" >>
                      ELSE IF doc.metaByl # << >> THEN << "nyt byl" >> ELSE << >>)
  IN  IF authorStr # << >> /\ validateExtractedAuthor(authorStr, rawHtml)
        THEN Return(authorStr, attempts)
        ELSE Go(authorStr, attempts)

\* "Check for site-specific extractors first"
SiteSpecific(doc, rawHtml, f) ==
  LET hostname == getHostnameFromHtml(doc)
      ap == IF includes(hostname, ApNewsHost) THEN ApNews(doc, rawHtml, f) ELSE f
  IN  IF hostname = << >> THEN Go(f.authorStr, f.attempts)
      ELSE IF includes(hostname, ApNewsHost) /\ ap.done THEN ap
      ELSE IF includes(hostname, NytimesHost) THEN Nytimes(doc, rawHtml, ap)
      ELSE Go(ap.authorStr, ap.attempts)

\* the loop over authorContainerSelectors; containers are the containers
\* found, in the order of the selectors
RECURSIVE AuthorContainers(_, _, _)
AuthorContainers(containers, rawHtml, f) ==
  IF containers = << >> THEN Go(f.authorStr, f.attempts)
  ELSE LET container == Head(containers)
           authorNames == TrimmedNames(container.links, 2)
           joined == JoinNames(authorNames)
           containerText == ProcessByline(container.text)
           afterLinks == IF authorNames # << >>
                           THEN Go(joined, f.attempts \o << "container", "container links" >>)
                           ELSE Go(f.authorStr, Append(f.attempts, "container"))
       IN  IF authorNames # << >> /\ validateExtractedAuthor(joined, rawHtml)
             THEN Return(joined, afterLinks.attempts)
           ELSE IF containerText # << >> /\ validateExtractedAuthor(containerText, rawHtml)
             THEN Return(containerText, Append(afterLinks.attempts, "container text"))
           ELSE AuthorContainers(Tail(containers), rawHtml, afterLinks)

\* the loop over the JSON-LD scripts; authors are the values of
\* extractAuthorFromJsonLd, '' for a script that has none or does not parse
RECURSIVE JsonLdAuthor(_, _, _)
JsonLdAuthor(authors, rawHtml, f) ==
  IF authors = << >> THEN f
  ELSE IF Head(authors) # << >> /\ validateExtractedAuthor(Head(authors), rawHtml)
    THEN Go(Head(authors), Append(f.attempts, "json-ld"))
  ELSE JsonLdAuthor(Tail(authors), rawHtml, f)

\* the loop over multiAuthorPatterns; patterns are the element texts of the
\* patterns whose container was found
RECURSIVE MultiAuthorPatterns(_, _, _)
MultiAuthorPatterns(patterns, rawHtml, f) ==
  IF patterns = << >> THEN Go(f.authorStr, f.attempts)
  ELSE LET authorNames == PatternNames(Head(patterns))
           joined == JoinNames(authorNames)
       IN  IF Len(Head(patterns)) > 1 /\ authorNames # << >>
             THEN IF validateExtractedAuthor(joined, rawHtml)
                    THEN Return(joined, Append(f.attempts, "multiple authors"))
                    ELSE MultiAuthorPatterns(Tail(patterns), rawHtml,
                                             Go(joined, Append(f.attempts, "multiple authors")))
             ELSE MultiAuthorPatterns(Tail(patterns), rawHtml, f)

\* "Check for elements with rel="author" within main content first"
RelAuthor(relAuthor, rawHtml, f) ==
  LET authorNames == TrimmedNames(relAuthor, 0)
      joined == JoinNames(authorNames)
  IN  IF Len(relAuthor) > 1
        THEN IF authorNames # << >>
               THEN IF validateExtractedAuthor(joined, rawHtml)
                      THEN Return(joined, Append(f.attempts, "multiple rel"))
                      ELSE Go(joined, Append(f.attempts, "multiple rel"))
               ELSE Go(f.authorStr, f.attempts)
      ELSE IF Len(relAuthor) = 1 /\ validateExtractedAuthor(trim(relAuthor[1]), rawHtml)
        THEN Go(trim(relAuthor[1]), Append(f.attempts, "rel"))
      ELSE Go(f.authorStr, f.attempts)

\* text && text.length > 3 && !/^by\s*$/i.test(text)
BylineUsable(text) ==
  Len(trim(text)) > 3

\* the loop over authorSelectors; elements are the texts of the first element
\* of each selector that has one
RECURSIVE BylineClasses(_, _, _)
BylineClasses(elements, rawHtml, f) ==
  IF elements = << >> THEN Go(f.authorStr, f.attempts)
  ELSE IF /\ BylineUsable(Head(elements))
          /\ validateExtractedAuthor(ProcessByline(Head(elements)), rawHtml)
    THEN Go(ProcessByline(Head(elements)), Append(f.attempts, "byline class"))
  ELSE BylineClasses(Tail(elements), rawHtml, f)

\* byMatch[1] of the "by" pattern, '' when the text has no match
ByPattern(byMatch, rawHtml, f) ==
  IF byMatch # << >> /\ validateExtractedAuthor(AndToComma(trim(byMatch)), rawHtml)
    THEN Go(AndToComma(trim(byMatch)), Append(f.attempts, "by-pattern"))
    ELSE Go(f.authorStr, f.attempts)

\* the content of the first author meta tag that has one
MetaAuthorTag(metaAuthor, rawHtml, f) ==
  IF metaAuthor # << >> /\ validateExtractedAuthor(metaAuthor, rawHtml)
    THEN Go(metaAuthor, Append(f.attempts, "meta"))
    ELSE Go(f.authorStr, f.attempts)

\* replace(/^(by|written by|author:)\s+/i, '').replace(/\s+/g, ' ').trim()
CleanUp(authorStr) ==
  trim(NormalizeSpaces(StripPrefix(authorStr,
    << <<"b","y">>, <<"w","r","i","t","t","e","n"," ","b","y">>,
       <<"a","u","t","h","o","r",":">> >>)))

\* --------------------------------------------- inputs of extractAuthor
NoText == << >>

ApLink == [present |-> TRUE, valid |-> TRUE, hostname |-> <<"a","p","n","e","w","s",".","c","o","m">>]

NytLink == [present |-> TRUE, valid |-> TRUE, hostname |-> <<"w","w","w",".","n","y","t","i","m","e","s",".","c","o","m">>]

BadLink == [present |-> TRUE, valid |-> FALSE, hostname |-> << >>]

\* what the page says of its site: no link at all; an AP News page with one
\* author link or with none; a New York Times page, known by og:url, with a
\* byline element or with the byl meta tag
SiteParts ==
  { [canonical |-> NoLink, ogUrl |-> NoLink, pageAuthorLinks |-> << >>,
     nytByline |-> NoText, metaByl |-> NoText],
    [canonical |-> ApLink, ogUrl |-> NoLink, pageAuthorLinks |-> << <<"S","t","a","f","f">> >>,
     nytByline |-> NoText, metaByl |-> NoText],
    [canonical |-> ApLink, ogUrl |-> NoLink, pageAuthorLinks |-> << >>,
     nytByline |-> NoText, metaByl |-> NoText],
    [canonical |-> BadLink, ogUrl |-> NytLink, pageAuthorLinks |-> << >>,
     nytByline |-> <<"S","t","a","f","f">>, metaByl |-> NoText],
    [canonical |-> NoLink, ogUrl |-> NytLink, pageAuthorLinks |-> << >>,
     nytByline |-> NoText, metaByl |-> <<"B","y"," ","J","a","n","e"," ","S","m","i","t","h">>] }

\* the author containers found: none, one with a link, one with text only
ContainerParts ==
  { << >>,
    << [links |-> << <<"S","t","a","f","f">> >>, text |-> <<"S","t","a","f","f">>] >>,
    << [links |-> << >>, text |-> <<"B","y"," ","J","a","n","e"," ","S","m","i","t","h"," ","a","n","d"," ","A","l"," ","W","u">>] >> }

\* the authors of the JSON-LD scripts
JsonLdParts == { << >>, << <<"S","t","a","f","f">>, <<"J","a","n","e"," ","S","m","i","t","h">> >> }

\* the elements of the multi-author patterns whose container was found
PatternParts ==
  { << >>,
    << << <<"B","y"," ","J","a","n","e"," ","S","m","i","t","h">>, <<"a","n","d"," ","A","l"," ","W","u">> >> >>,
    << << <<"N","e","w","s">>, <<"D","e","s","k">> >> >> }

\* the texts of the rel="author" elements
RelParts == { << >>, << <<"J","a","n","e"," ","S","m","i","t","h">> >>, << <<"S","t","a","f","f">> >>, << <<"N","e","w","s">>, <<"D","e","s","k">> >> }

\* the texts of the byline elements found
BylineParts == { << >>, << <<"B","y">>, <<"S","t","a","f","f">> >>, << <<"B","y"," ","J","a","n","e"," ","S","m","i","t","h"," ","a","n","d"," ","A","l"," ","W","u">> >> }

\* the name the "by" pattern captures
ByMatchParts == { NoText, <<"J","a","n","e"," ","S","m","i","t","h"," ","a","n","d"," ","A","l"," ","W","u">> }

\* the content of the author meta tag
MetaParts == { NoText, <<"S","t","a","f","f">>, <<"J","a","n","e"," ","S","m","i","t","h">> }

\* every text of the page, as $.html() has them, markup between them
RECURSIVE PageSource(_)
PageSource(texts) ==
  IF texts = << >> THEN << >>
  ELSE << "|" >> \o Head(texts) \o PageSource(Tail(texts))

RECURSIVE ContainerTexts(_)
ContainerTexts(containers) ==
  IF containers = << >> THEN << >>
  ELSE Head(containers).links \o << Head(containers).text >>
       \o ContainerTexts(Tail(containers))

RECURSIVE Concat(_)
Concat(lists) == IF lists = << >> THEN << >> ELSE Head(lists) \o Concat(Tail(lists))

html(doc) ==
  PageSource(doc.pageAuthorLinks \o << doc.nytByline, doc.metaByl >>
             \o ContainerTexts(doc.containers) \o doc.jsonLd
             \o Concat(doc.patterns) \o doc.relAuthor \o doc.bylines
             \o << doc.byMatch, doc.metaAuthor >>)

AuthorDocs ==
  { [canonical |-> s.canonical, ogUrl |-> s.ogUrl,
     pageAuthorLinks |-> s.pageAuthorLinks, nytByline |-> s.nytByline,
     metaByl |-> s.metaByl, containers |-> c, jsonLd |-> j, patterns |-> p,
     relAuthor |-> r, bylines |-> b, byMatch |-> y, metaAuthor |-> m] :
    s \in SiteParts, c \in ContainerParts, j \in JsonLdParts, p \in PatternParts,
    r \in RelParts, b \in BylineParts, y \in ByMatchParts, m \in MetaParts }

\* extractAuthor is called on a page: authorStr = '', attempts = [] and
\* rawHtml = $.html().toLowerCase()
InitAuthor ==
  /\ \E doc \in AuthorDocs :
       /\ input = [fn |-> "extractAuthor", doc |-> doc]
       /\ frame = [pc |-> "site", authorStr |-> NoText, attempts |-> << >>,
                   rawHtml |-> toLowerCase(html(doc)), value |-> NoText]
  /\ HandlerIdle

\* a stretch of the function has run: it returned, or goes on at next
Advance(out, next) ==
  /\ frame' = [frame EXCEPT !.pc = IF out.done THEN "returned" ELSE next,
                            !.authorStr = out.authorStr,
                            !.attempts = out.attempts,
                            !.value = IF out.done THEN out.authorStr ELSE @]
  /\ UNCHANGED << input, handlerVars >>

Locals == Go(frame.authorStr, frame.attempts)

SiteSpecificStep ==
  /\ input.fn = "extractAuthor" /\ frame.pc = "site"
  /\ Advance(SiteSpecific(input.doc, frame.rawHtml, Locals), "containers")

AuthorContainersStep ==
  /\ input.fn = "extractAuthor" /\ frame.pc = "containers"
  /\ Advance(AuthorContainers(input.doc.containers, frame.rawHtml, Locals), "jsonLd")

\* the JSON-LD scripts, then "if (authorStr) return authorStr"
JsonLdStep ==
  /\ input.fn = "extractAuthor" /\ frame.pc = "jsonLd"
  /\ LET out == JsonLdAuthor(input.doc.jsonLd, frame.rawHtml, Locals)
     IN  Advance(IF out.authorStr # NoText THEN Return(out.authorStr, out.attempts)
                 ELSE out, "patterns")

MultiAuthorStep ==
  /\ input.fn = "extractAuthor" /\ frame.pc = "patterns"
  /\ Advance(MultiAuthorPatterns(input.doc.patterns, frame.rawHtml, Locals), "rel")

RelAuthorStep ==
  /\ input.fn = "extractAuthor" /\ frame.pc = "rel"
  /\ Advance(RelAuthor(input.doc.relAuthor, frame.rawHtml, Locals), "byline")

BylineStep ==
  /\ input.fn = "extractAuthor" /\ frame.pc = "byline"
  /\ Advance(IF frame.authorStr = NoText
               THEN BylineClasses(input.doc.bylines, frame.rawHtml, Locals)
               ELSE Locals, "byPattern")

ByPatternStep ==
  /\ input.fn = "extractAuthor" /\ frame.pc = "byPattern"
  /\ Advance(IF frame.authorStr = NoText
               THEN ByPattern(input.doc.byMatch, frame.rawHtml, Locals)
               ELSE Locals, "meta")

MetaAuthorStep ==
  /\ input.fn = "extractAuthor" /\ frame.pc = "meta"
  /\ Advance(IF frame.authorStr = NoText
               THEN MetaAuthorTag(input.doc.metaAuthor, frame.rawHtml, Locals)
               ELSE Locals, "cleanup")

\* "Clean up the result" and return
CleanUpStep ==
  /\ input.fn = "extractAuthor" /\ frame.pc = "cleanup"
  /\ Advance(Return(IF frame.authorStr # NoText THEN CleanUp(frame.authorStr)
                    ELSE frame.authorStr, frame.attempts), "returned")

NextAuthor ==
  \/ SiteSpecificStep
  \/ AuthorContainersStep
  \/ JsonLdStep
  \/ MultiAuthorStep
  \/ RelAuthorStep
  \/ BylineStep
  \/ ByPatternStep
  \/ MetaAuthorStep
  \/ CleanUpStep

SpecAuthor == InitAuthor /\ [][NextAuthor]_vars

\* ----------------------------------------------------- extractPublication
\* alt.length < 50, text.length < 50
HeaderLimit == 50

\* String.prototype.toUpperCase on one character
UpperChar(c) ==
  IF \E j \in 1..26 : LowerChars[j] = c
    THEN UpperChars[CHOOSE j \in 1..26 : LowerChars[j] = c]
    ELSE c

\* String.prototype.split(c) for a character c
RECURSIVE SplitAt(_, _, _)
SplitAt(s, c, cur) ==
  IF s = << >> THEN << cur >>
  ELSE IF Head(s) = c THEN << cur >> \o SplitAt(Tail(s), c, << >>)
  ELSE SplitAt(Tail(s), c, Append(cur, Head(s)))

\* replace(/^www\./, '')
StripWww(hostname) ==
  IF startsWith(hostname, <<"w","w","w",".">>) THEN DropChars(hostname, 4) ELSE hostname

\* replace(/-/g, ' ')
DashToSpace(s) == [k \in 1..Len(s) |-> IF s[k] = "-" THEN " " ELSE s[k]]

\* word.charAt(0).toUpperCase() + word.slice(1)
Capitalize(word) ==
  IF word = << >> THEN << >> ELSE << UpperChar(Head(word)) >> \o Tail(word)

\* words.map(capitalize).join(' ')
RECURSIVE JoinCapitalized(_)
JoinCapitalized(words) ==
  IF words = << >> THEN << >>
  ELSE IF Len(words) = 1 THEN Capitalize(words[1])
  ELSE Capitalize(words[1]) \o << " " >> \o JoinCapitalized(Tail(words))

UnknownPublication ==
  <<"U","n","k","n","o","w","n"," ","P","u","b","l","i","c","a","t","i","o","n">>

\* "Extract from domain as fallback": new URL(url) throws on a text that is no
\* URL; otherwise the first label of the hostname, capitalized
DomainName(url) ==
  LET domain == StripWww(url.hostname)
      parts == SplitAt(domain, ".", << >>)
      name == JoinCapitalized(SplitAt(DashToSpace(parts[1]), " ", << >>))
  IN  IF ~url.valid THEN UnknownPublication
      ELSE IF Len(parts) > 0 THEN name
      ELSE domain

\* the loop over the JSON-LD scripts; publishers are the values of
\* extractPublisherFromJsonLd, '' for a script that has none or does not parse
RECURSIVE JsonLdPublisher(_)
JsonLdPublisher(publishers) ==
  IF publishers = << >> THEN << >>
  ELSE IF Head(publishers) # << >> THEN Head(publishers)
  ELSE JsonLdPublisher(Tail(publishers))

\* a || b || c over the contents of the three publisher meta tags
RECURSIVE FirstText(_)
FirstText(texts) ==
  IF texts = << >> THEN << >>
  ELSE IF Head(texts) # << >> THEN Head(texts)
  ELSE FirstText(Tail(texts))

\* the loop over headerSelectors; elements are the first elements found
RECURSIVE HeaderName(_)
HeaderName(elements) ==
  IF elements = << >> THEN << >>
  ELSE LET e == Head(elements)
       IN  IF e.isImg /\ e.alt # << >> /\ Len(e.alt) < HeaderLimit THEN e.alt
           ELSE IF trim(e.text) # << >> /\ Len(trim(e.text)) < HeaderLimit
             THEN trim(e.text)
           ELSE HeaderName(Tail(elements))

\* ------------------------------------------- inputs of extractPublication
ValidUrlOf(hostname) == [present |-> TRUE, valid |-> TRUE, hostname |-> hostname]

\* the url argument: a text that is no URL, and URLs by their hostname
UrlTexts ==
  { BadLink,
    ValidUrlOf(<<"w","w","w",".","t","h","e","-","v","e","r","g","e",".","c","o","m">>),
    ValidUrlOf(<<"n","y","t","i","m","e","s",".","c","o","m">>),
    ValidUrlOf(<<"w","w","w",".">>) }

LongText == [k \in 1..HeaderLimit |-> "x"]

HeaderParts ==
  { << >>,
    << [isImg |-> TRUE, alt |-> LongText, text |-> NoText] >>,
    << [isImg |-> TRUE, alt |-> NoText, text |-> NoText],
       [isImg |-> FALSE, alt |-> NoText, text |-> <<" "," ","T","h","e"," ","V","e","r","g","e"," ">>] >>,
    << [isImg |-> TRUE, alt |-> <<"V","e","r","g","e"," ","L","o","g","o">>, text |-> NoText] >> }

PublicationDocs ==
  [ ogSiteName : { NoText, <<"T","h","e"," ","V","e","r","g","e">> },
    publishers : { << >>, << NoText, <<"V","o","x"," ","M","e","d","i","a">> >> },
    publisherMetas : { << NoText, NoText, NoText >>, << NoText, <<"V","e","r","g","e">>, NoText >> },
    headers : HeaderParts ]

\* extractPublication is called on a page and the URL it was fetched from
InitPublication ==
  /\ input \in [fn : {"extractPublication"}, doc : PublicationDocs, url : UrlTexts]
  /\ frame = [pc |-> "ogSiteName", value |-> NoText]
  /\ HandlerIdle

\* a stretch has found name and returns it, or has not and goes on at next
ReturnIfFound(name, next) ==
  /\ frame' = IF name # NoText THEN [pc |-> "returned", value |-> name]
              ELSE [frame EXCEPT !.pc = next]
  /\ UNCHANGED << input, handlerVars >>

OgSiteNameStep ==
  /\ input.fn = "extractPublication" /\ frame.pc = "ogSiteName"
  /\ ReturnIfFound(input.doc.ogSiteName, "jsonLd")

JsonLdPublisherStep ==
  /\ input.fn = "extractPublication" /\ frame.pc = "jsonLd"
  /\ ReturnIfFound(JsonLdPublisher(input.doc.publishers), "meta")

PublisherMetaStep ==
  /\ input.fn = "extractPublication" /\ frame.pc = "meta"
  /\ ReturnIfFound(FirstText(input.doc.publisherMetas), "header")

HeaderStep ==
  /\ input.fn = "extractPublication" /\ frame.pc = "header"
  /\ ReturnIfFound(HeaderName(input.doc.headers), "domain")

DomainStep ==
  /\ input.fn = "extractPublication" /\ frame.pc = "domain"
  /\ frame' = [pc |-> "returned", value |-> DomainName(input.url)]
  /\ UNCHANGED << input, handlerVars >>

NextPublication ==
  \/ OgSiteNameStep
  \/ JsonLdPublisherStep
  \/ PublisherMetaStep
  \/ HeaderStep
  \/ DomainStep

SpecPublication == InitPublication /\ [][NextPublication]_vars

\* ------------------------------------------------------------ extractDate
\* A text that may hold a date is known by its shape and the numbers in it:
\*   "iso"      2021-01-05              "isoTime"  2021-01-05T10:00:00Z
\*   "long"     January 5, 2021         "dmy"      5 January 2021
\*   "slash"    1/5/2021 (m the first number, d the second)
\*   "year"     2021
\*   "prose"    Published Jan 5, 2021 by Staff
\*   "updated"  Updated Jan 5, 2021 by Staff
\*   "words"    not a date              "empty"    ''
DateText(shape, y, m, d) == [shape |-> shape, y |-> y, m |-> m, d |-> d]

EmptyText == DateText("empty", 0, 0, 0)

\* the null of parseLooseDate
NullDate == DateText("null", 0, 0, 0)

\* date.getFullYear() >= 1995
MinYear == 1995

\* new Date().getFullYear()
CurrentYear == 2026

\* text.length of a text of each shape
TextLength(t) ==
  CASE t.shape = "empty" -> 0
    [] t.shape = "year" -> 4
    [] t.shape = "iso" -> 10
    [] t.shape = "isoTime" -> 20
    [] t.shape = "slash" -> 8
    [] t.shape = "dmy" -> 14
    [] t.shape = "long" -> 15
    [] OTHER -> 30

\* !isNaN(new Date(dateStr).getTime()): the date formats the engine reads, with
\* a month and a day it accepts; words after the numbers make the text invalid
DateParses(t) ==
  \/ t.shape = "year"
  \/ /\ t.shape \in {"iso", "isoTime", "long", "dmy", "slash"}
     /\ t.m \in 1..12 /\ t.d \in 1..31

isValidDate(t) == DateParses(t) /\ t.y >= MinYear /\ t.y <= CurrentYear

\* `${year}-${month padStart 2}-${day padStart 2}`
Ymd(y, m, d) == DateText("iso", y, m, d)

\* "First try direct parsing": the text itself when isValidDate accepts it
DirectParse(t) == IF isValidDate(t) THEN t ELSE NullDate

\* pattern1, Month DD, YYYY, anywhere in the text
Pattern1(t) ==
  IF t.shape \in {"long", "prose", "updated"} THEN Ymd(t.y, t.m, t.d) ELSE NullDate

\* pattern2, DD Month YYYY
Pattern2(t) == IF t.shape = "dmy" THEN Ymd(t.y, t.m, t.d) ELSE NullDate

\* pattern3, YYYY-MM-DD, or two numbers and a year of which the first number
\* is the day when it is over 12
Pattern3(t) ==
  IF t.shape \in {"iso", "isoTime"} THEN Ymd(t.y, t.m, t.d)
  ELSE IF t.shape = "slash"
    THEN IF t.m > 12 THEN Ymd(t.y, t.d, t.m) ELSE Ymd(t.y, t.m, t.d)
  ELSE NullDate

parseLooseDate(t) ==
  IF DirectParse(t) # NullDate THEN DirectParse(t)
  ELSE IF Pattern1(t) # NullDate THEN Pattern1(t)
  ELSE IF Pattern2(t) # NullDate THEN Pattern2(t)
  ELSE Pattern3(t)

\* /updated|modified/i.test(text)
MentionsUpdate(t) == t.shape = "updated"

\* the loop over the JSON-LD scripts; dates are the values of
\* extractDateFromJsonLd, '' for a script that has none or does not parse
RECURSIVE JsonLdDate(_)
JsonLdDate(dates) ==
  IF dates = << >> THEN EmptyText
  ELSE IF Head(dates) # EmptyText THEN Head(dates)
  ELSE JsonLdDate(Tail(dates))

\* the loop over timeSelectors; elements are the first elements found, each
\* with its datetime (or content) attribute and its text; skipUpdated is on
\* in the loop over the whole scope
RECURSIVE TimeElements(_, _)
TimeElements(elements, skipUpdated) ==
  IF elements = << >> THEN EmptyText
  ELSE LET e == Head(elements)
       IN  IF e.datetime # EmptyText /\ isValidDate(e.datetime) THEN e.datetime
           ELSE IF /\ TextLength(e.text) > 5
                   /\ ~(skipUpdated /\ MentionsUpdate(e.text))
                   /\ parseLooseDate(e.text) # NullDate
             THEN parseLooseDate(e.text)
           ELSE TimeElements(Tail(elements), skipUpdated)

\* the loop over metaSelectors; contents are the content attributes found
RECURSIVE MetaDate(_)
MetaDate(contents) ==
  IF contents = << >> THEN EmptyText
  ELSE IF Head(contents) # EmptyText /\ isValidDate(Head(contents)) THEN Head(contents)
  ELSE MetaDate(Tail(contents))

\* "Last resort": parseLooseDate on the text of the first paragraphs
TopParagraphs(topText) ==
  IF parseLooseDate(topText) # NullDate THEN parseLooseDate(topText) ELSE EmptyText

\* ------------------------------------------------- inputs of extractDate
Iso2021 == DateText("iso", 2021, 1, 5)

IsoTime2021 == DateText("isoTime", 2021, 1, 5)

Long2021 == DateText("long", 2021, 1, 5)

Iso1990 == DateText("iso", 1990, 3, 4)

Prose2021 == DateText("prose", 2021, 1, 5)

Updated2021 == DateText("updated", 2021, 1, 6)

Words == DateText("words", 0, 0, 0)

Year2021 == DateText("year", 2021, 0, 0)

DateDocs ==
  [ jsonLd : { << >>, << EmptyText, IsoTime2021 >>, << Words >> },
    near : { << >>,
             << [datetime |-> EmptyText, text |-> Prose2021] >>,
             << [datetime |-> Iso1990, text |-> Year2021] >> },
    scope : { << >>,
              << [datetime |-> Iso2021, text |-> EmptyText] >>,
              << [datetime |-> EmptyText, text |-> Updated2021],
                 [datetime |-> EmptyText, text |-> Long2021] >> },
    metas : { << >>, << Words, IsoTime2021 >> },
    topText : { EmptyText, Updated2021, Words, Year2021 } ]

\* extractDate is called on a page: dateStr = ''
InitDate ==
  /\ input \in [fn : {"extractDate"}, doc : DateDocs]
  /\ frame = [pc |-> "jsonLd", dateStr |-> EmptyText, value |-> EmptyText]
  /\ HandlerIdle

\* a stretch of extractDate is over with dateStr as it is now
DateGoesOn(dateStr, next) ==
  /\ frame' = [frame EXCEPT !.pc = next, !.dateStr = dateStr]
  /\ UNCHANGED << input, handlerVars >>

\* the JSON-LD scripts, then "if (dateStr) return dateStr"
JsonLdDateStep ==
  /\ input.fn = "extractDate" /\ frame.pc = "jsonLd"
  /\ LET date == JsonLdDate(input.doc.jsonLd)
     IN  /\ frame' = IF date # EmptyText
                       THEN [pc |-> "returned", dateStr |-> date, value |-> date]
                       ELSE [frame EXCEPT !.pc = "near"]
         /\ UNCHANGED << input, handlerVars >>

NearAuthorStep ==
  /\ input.fn = "extractDate" /\ frame.pc = "near"
  /\ DateGoesOn(TimeElements(input.doc.near, FALSE), "scope")

\* the loop over the whole scope without its "if (!dateStr)"
InScopeStepUnguarded ==
  /\ input.fn = "extractDate" /\ frame.pc = "scope"
  /\ DateGoesOn(IF TimeElements(input.doc.scope, TRUE) # EmptyText
                  THEN TimeElements(input.doc.scope, TRUE)
                  ELSE frame.dateStr, "meta")

InScopeStep ==
  /\ input.fn = "extractDate" /\ frame.pc = "scope"
  /\ DateGoesOn(IF frame.dateStr = EmptyText
                  THEN TimeElements(input.doc.scope, TRUE)
                  ELSE frame.dateStr, "meta")

MetaDateStep ==
  /\ input.fn = "extractDate" /\ frame.pc = "meta"
  /\ DateGoesOn(IF frame.dateStr = EmptyText
                  THEN MetaDate(input.doc.metas)
                  ELSE frame.dateStr, "top")

\* the last resort, and "return dateStr"
TopParagraphsStep ==
  /\ input.fn = "extractDate" /\ frame.pc = "top"
  /\ LET dateStr == IF frame.dateStr = EmptyText
                      THEN TopParagraphs(input.doc.topText)
                      ELSE frame.dateStr
     IN  /\ frame' = [pc |-> "returned", dateStr |-> dateStr, value |-> dateStr]
         /\ UNCHANGED << input, handlerVars >>

NextDate ==
  \/ JsonLdDateStep
  \/ NearAuthorStep
  \/ InScopeStep
  \/ MetaDateStep
  \/ TopParagraphsStep

SpecDate == InitDate /\ [][NextDate]_vars

\* --------------------------------------------------------- parseLooseDate
\* the years, months and days of the texts parseLooseDate is tried on
LooseYears == {1990, 2021, 2030}

LooseTexts ==
  { DateText(s, y, m, d) : s \in {"iso", "isoTime", "slash"},
                           y \in LooseYears, m \in {1, 13}, d \in {5, 40} }
  \cup { DateText(s, y, 1, d) : s \in {"long", "dmy", "prose", "updated"},
                                y \in LooseYears, d \in {5, 40} }
  \cup { Words, Year2021, EmptyText }

\* parseLooseDate is called on a text
InitLoose ==
  /\ input \in [fn : {"parseLooseDate"}, text : LooseTexts]
  /\ frame = [pc |-> "direct", value |-> NullDate]
  /\ HandlerIdle

\* one attempt of parseLooseDate: return what it found, or try the next one
LooseGoesOn(found, next) ==
  /\ frame' = IF found # NullDate THEN [pc |-> "returned", value |-> found]
              ELSE [pc |-> next, value |-> NullDate]
  /\ UNCHANGED << input, handlerVars >>

DirectParseStep ==
  /\ input.fn = "parseLooseDate" /\ frame.pc = "direct"
  /\ LooseGoesOn(DirectParse(input.text), "pattern1")

Pattern1Step ==
  /\ input.fn = "parseLooseDate" /\ frame.pc = "pattern1"
  /\ LooseGoesOn(Pattern1(input.text), "pattern2")

Pattern2Step ==
  /\ input.fn = "parseLooseDate" /\ frame.pc = "pattern2"
  /\ LooseGoesOn(Pattern2(input.text), "pattern3")

\* the last pattern; "return null" when it does not match either
Pattern3Step ==
  /\ input.fn = "parseLooseDate" /\ frame.pc = "pattern3"
  /\ LooseGoesOn(Pattern3(input.text), "returned")

NextLoose ==
  \/ DirectParseStep
  \/ Pattern1Step
  \/ Pattern2Step
  \/ Pattern3Step

SpecLoose == InitLoose /\ [][NextLoose]_vars

\* ------------------------------------------------------ sanitizeJsonString
Quote == "\""

Apostrophe == "'"

Backslash == "\\"

\* the null of sanitizeJsonString
NullJson == << "null" >>

\* the text word stands in s at index k
TextAt(s, k, word) ==
  k + Len(word) - 1 <= Len(s) /\ SubSeq(s, k, k + Len(word) - 1) = word

\* the first index from k on that holds no white space (\s*)
RECURSIVE SkipSpaces(_, _)
SkipSpaces(s, k) ==
  IF k <= Len(s) /\ IsSpace(s[k]) THEN SkipSpaces(s, k + 1) ELSE k

CommentOpen == << "<", "!", "-", "-" >>

CommentClose == << "-", "-", ">" >>

\* the index of the first --> from k on, 0 when there is none
RECURSIVE CloseFrom(_, _)
CloseFrom(s, k) ==
  IF k + 2 > Len(s) THEN 0
  ELSE IF TextAt(s, k, CommentClose) THEN k
  ELSE CloseFrom(s, k + 1)

\* replace(/<!--[\s\S]*?-->/g, '') from index k on
RECURSIVE RemoveCommentsFrom(_, _)
RemoveCommentsFrom(s, k) ==
  IF k > Len(s) THEN << >>
  ELSE IF TextAt(s, k, CommentOpen) /\ CloseFrom(s, k + 4) # 0
    THEN RemoveCommentsFrom(s, CloseFrom(s, k + 4) + 3)
  ELSE << s[k] >> \o RemoveCommentsFrom(s, k + 1)

RemoveComments(s) == RemoveCommentsFrom(s, 1)

\* replace(/,\s*([\]}])/g, '$1') from index k on
RECURSIVE RemoveTrailingCommasFrom(_, _)
RemoveTrailingCommasFrom(s, k) ==
  IF k > Len(s) THEN << >>
  ELSE LET j == SkipSpaces(s, k + 1)
       IN  IF s[k] = "," /\ j <= Len(s) /\ s[j] \in {"]", "}"}
             THEN << s[j] >> \o RemoveTrailingCommasFrom(s, j + 1)
             ELSE << s[k] >> \o RemoveTrailingCommasFrom(s, k + 1)

RemoveTrailingCommas(s) == RemoveTrailingCommasFrom(s, 1)

Digits == {"0", "1", "2", "3", "4", "5", "6", "7", "8", "9"}

\* [a-zA-Z0-9_$]
WordChar(c) ==
  \/ \E k \in 1..Len(LowerChars) : c = LowerChars[k] \/ c = UpperChars[k]
  \/ c \in Digits \cup {"_", "$"}

\* the first index from k on that holds no word character
RECURSIVE SkipWord(_, _)
SkipWord(s, k) ==
  IF k <= Len(s) /\ WordChar(s[k]) THEN SkipWord(s, k + 1) ELSE k

\* replace(/([{,]\s*)([a-zA-Z0-9_$]+)\s*:/g, '$1"$2":') from index k on
RECURSIVE QuoteKeysFrom(_, _)
QuoteKeysFrom(s, k) ==
  IF k > Len(s) THEN << >>
  ELSE LET a == SkipSpaces(s, k + 1)
           b == SkipWord(s, a)
           c == SkipSpaces(s, b)
       IN  IF s[k] \in {"{", ","} /\ b > a /\ c <= Len(s) /\ s[c] = ":"
             THEN SubSeq(s, k, a - 1) \o << Quote >> \o SubSeq(s, a, b - 1)
                    \o << Quote, ":" >> \o QuoteKeysFrom(s, c + 1)
             ELSE << s[k] >> \o QuoteKeysFrom(s, k + 1)

QuoteKeys(s) == QuoteKeysFrom(s, 1)

\* the loop over the characters of cleaned, from index k on
RECURSIVE ConvertQuotesFrom(_, _, _, _, _)
ConvertQuotesFrom(cleaned, k, inString, inSingleQuoteString, result) ==
  IF k > Len(cleaned) THEN result
  ELSE LET char == cleaned[k]
           prevChar == IF k > 1 THEN cleaned[k - 1] ELSE ""
       IN  IF char = Quote /\ prevChar # Backslash
             THEN ConvertQuotesFrom(cleaned, k + 1, ~inString, inSingleQuoteString,
                                    Append(result, char))
           ELSE IF char = Apostrophe /\ prevChar # Backslash /\ ~inString
             THEN ConvertQuotesFrom(cleaned, k + 1, inString, ~inSingleQuoteString,
                                    Append(result, Quote))
           ELSE IF inSingleQuoteString /\ char = Apostrophe /\ prevChar = Backslash
             THEN ConvertQuotesFrom(cleaned, k + 1, inString, inSingleQuoteString,
                                    SubSeq(result, 1, Len(result) - 1)
                                      \o << Backslash, Apostrophe >>)
           ELSE ConvertQuotesFrom(cleaned, k + 1, inString, inSingleQuoteString,
                                  Append(result, char))

ConvertQuotes(cleaned) == ConvertQuotesFrom(cleaned, 1, FALSE, FALSE, << >>)

\* String.prototype.endsWith
endsWith(s, suffix) ==
  Len(s) >= Len(suffix) /\ SubSeq(s, Len(s) - Len(suffix) + 1, Len(s)) = suffix

\* "Quick validation check": the trimmed result, or null
ShapeCheck(result) ==
  LET trimmed == trim(result)
  IN  IF \/ startsWith(trimmed, << "{" >>) /\ endsWith(trimmed, << "}" >>)
         \/ startsWith(trimmed, << "[" >>) /\ endsWith(trimmed, << "]" >>)
        THEN trimmed
        ELSE NullJson

sanitizeJsonString(jsonString) ==
  ShapeCheck(ConvertQuotes(QuoteKeys(RemoveTrailingCommas(RemoveComments(jsonString)))))

\* ---------------------------------------------------------------- JSON.parse
\* JSON.parse on the texts of the model: an object whose members are strings.
\* The value is the sequence of the members, or a SyntaxError.
SyntaxError == [ok |-> FALSE]

\* the rest of a string literal from index k on: its text and the index
\* after its closing quote; \" \\ and \/ are the escapes of these texts and
\* any other character after a backslash is a SyntaxError
RECURSIVE StringBody(_, _, _)
StringBody(s, k, acc) ==
  IF k > Len(s) THEN SyntaxError
  ELSE IF s[k] = Quote THEN [ok |-> TRUE, text |-> acc, next |-> k + 1]
  ELSE IF s[k] = Backslash
    THEN IF k + 1 <= Len(s) /\ s[k + 1] \in {Quote, Backslash, "/"}
           THEN StringBody(s, k + 2, Append(acc, s[k + 1]))
           ELSE SyntaxError
  ELSE StringBody(s, k + 1, Append(acc, s[k]))

StringAt(s, k) ==
  IF k <= Len(s) /\ s[k] = Quote THEN StringBody(s, k + 1, << >>) ELSE SyntaxError

\* the members of an object from index k on, up to its closing brace
RECURSIVE MembersFrom(_, _, _)
MembersFrom(s, k, acc) ==
  LET key == StringAt(s, k)
      c == SkipSpaces(s, key.next)
      val == IF key.ok /\ c <= Len(s) /\ s[c] = ":"
               THEN StringAt(s, SkipSpaces(s, c + 1))
               ELSE SyntaxError
      e == SkipSpaces(s, val.next)
  IN  IF ~val.ok \/ e > Len(s) THEN SyntaxError
      ELSE IF s[e] = "}"
        THEN [ok |-> TRUE, members |-> Append(acc, << key.text, val.text >>),
              next |-> e + 1]
      ELSE IF s[e] = ","
        THEN MembersFrom(s, SkipSpaces(s, e + 1),
                         Append(acc, << key.text, val.text >>))
      ELSE SyntaxError

JsonParse(s) ==
  LET k == SkipSpaces(s, 1)
      a == SkipSpaces(s, k + 1)
      m == IF a <= Len(s) /\ s[a] = "}"
             THEN [ok |-> TRUE, members |-> << >>, next |-> a + 1]
             ELSE MembersFrom(s, a, << >>)
  IN  IF k > Len(s) \/ s[k] # "{" THEN SyntaxError
      ELSE IF m.ok /\ SkipSpaces(s, m.next) > Len(s)
        THEN [ok |-> TRUE, members |-> m.members]
      ELSE SyntaxError

\* ------------------------------------------ inputs of sanitizeJsonString
\* the ways a block is malformed
Repairs == {"comment", "trailing", "unquoted", "single"}

KeyTexts == { <<"a","u","t","h","o","r">>, <<"n","a","m","e","_","1">> }

\* Jane / Jane, desk: NY / O'Neil / Jane Smith
ValueTexts ==
  { <<"J","a","n","e">>,
    <<"J","a","n","e",","," ","d","e","s","k",":"," ","N","Y">>,
    <<"O","'","N","e","i","l">>,
    <<"J","a","n","e"," ","S","m","i","t","h">> }

\* a value as one writes it between single quotes
RECURSIVE EscapeApostrophes(_)
EscapeApostrophes(s) ==
  IF s = << >> THEN << >>
  ELSE (IF Head(s) = Apostrophe THEN << Backslash, Apostrophe >> ELSE << Head(s) >>)
         \o EscapeApostrophes(Tail(s))

\* the block { key: value } written with the given faults
Malformed(key, value, faults) ==
  LET q == IF "single" \in faults THEN Apostrophe ELSE Quote
  IN  << "{" >>
      \o (IF "unquoted" \in faults THEN key ELSE << q >> \o key \o << q >>)
      \o << ":", " ", q >>
      \o (IF "single" \in faults THEN EscapeApostrophes(value) ELSE value)
      \o << q >>
      \o (IF "comment" \in faults THEN << " " >> \o CommentOpen \o << "c" >> \o CommentClose
                                  ELSE << >>)
      \o (IF "trailing" \in faults THEN << "," >> ELSE << >>)
      \o << "}" >>

\* the block as one corrects it by hand
HandCorrected(key, value) == Malformed(key, value, {})

\* sanitizeJsonString is called on a block
InitSanitize ==
  /\ \E key \in KeyTexts, value \in ValueTexts, faults \in SUBSET Repairs :
       input = [fn |-> "sanitizeJsonString", key |-> key, value |-> value,
                faults |-> faults, jsonString |-> Malformed(key, value, faults)]
  /\ frame = [pc |-> "comments", cleaned |-> NoText, value |-> NullJson]
  /\ HandlerIdle

\* one stretch of sanitizeJsonString has rewritten the text
CleanedTo(cleaned, next) ==
  /\ frame' = [frame EXCEPT !.pc = next, !.cleaned = cleaned]
  /\ UNCHANGED << input, handlerVars >>

RemoveCommentsStep ==
  /\ input.fn = "sanitizeJsonString" /\ frame.pc = "comments"
  /\ CleanedTo(RemoveComments(input.jsonString), "commas")

RemoveTrailingCommasStep ==
  /\ input.fn = "sanitizeJsonString" /\ frame.pc = "commas"
  /\ CleanedTo(RemoveTrailingCommas(frame.cleaned), "keys")

QuoteKeysStep ==
  /\ input.fn = "sanitizeJsonString" /\ frame.pc = "keys"
  /\ CleanedTo(QuoteKeys(frame.cleaned), "quotes")

ConvertQuotesStep ==
  /\ input.fn = "sanitizeJsonString" /\ frame.pc = "quotes"
  /\ CleanedTo(ConvertQuotes(frame.cleaned), "check")

ShapeCheckStep ==
  /\ input.fn = "sanitizeJsonString" /\ frame.pc = "check"
  /\ frame' = [frame EXCEPT !.pc = "returned", !.value = ShapeCheck(frame.cleaned)]
  /\ UNCHANGED << input, handlerVars >>

NextSanitize ==
  \/ RemoveCommentsStep
  \/ RemoveTrailingCommasStep
  \/ QuoteKeysStep
  \/ ConvertQuotesStep
  \/ ShapeCheckStep

SpecSanitize == InitSanitize /\ [][NextSanitize]_vars

\* ------------------------------------------- the JSON-LD loops of the extractors
\* the extractors that go through the JSON-LD scripts of a page, and the
\* member each of them reads from a parsed object
JsonLdFns == {"extractAuthor", "extractPublication", "extractDate"}

FieldOf(fn) ==
  CASE fn = "extractAuthor" -> <<"a","u","t","h","o","r">>
    [] fn = "extractPublication" -> <<"p","u","b","l","i","s","h","e","r">>
    [] OTHER -> <<"d","a","t","e","P","u","b","l","i","s","h","e","d">>

\* jsonLd[key] for a string member, '' when the object has none
RECURSIVE Member(_, _)
Member(members, key) ==
  IF members = << >> THEN NoText
  ELSE IF members[Len(members)][1] = key THEN members[Len(members)][2]
  ELSE Member(SubSeq(members, 1, Len(members) - 1), key)

\* what the body of the each callback does with one script when JSON.parse
\* is not inside a try: a SyntaxError leaves the extractor
ScriptOutcomeUncaught(fn, scriptContent, rawHtml) ==
  LET cleanedJson == sanitizeJsonString(scriptContent)
      jsonLd == JsonParse(cleanedJson)
      found == Member(jsonLd.members, FieldOf(fn))
  IN  IF cleanedJson = NullJson THEN [kind |-> "skipped"]
      ELSE IF ~jsonLd.ok THEN [kind |-> "thrown"]
      ELSE IF /\ found # NoText
              /\ fn = "extractAuthor" => validateExtractedAuthor(found, rawHtml)
        THEN [kind |-> "found", value |-> found]
      ELSE [kind |-> "nothing"]

\* what the body of the each callback does with one script: the script is
\* skipped when it cannot be cleaned, an exception of JSON.parse or of the
\* reader is caught, and a value that is found ends the loop
ScriptOutcome(fn, scriptContent, rawHtml) ==
  LET cleanedJson == sanitizeJsonString(scriptContent)
      jsonLd == JsonParse(cleanedJson)
      found == Member(jsonLd.members, FieldOf(fn))
  IN  IF cleanedJson = NullJson THEN [kind |-> "skipped"]
      ELSE IF ~jsonLd.ok THEN [kind |-> "caught"]
      ELSE IF /\ found # NoText
              /\ fn = "extractAuthor" => validateExtractedAuthor(found, rawHtml)
        THEN [kind |-> "found", value |-> found]
      ELSE [kind |-> "nothing"]

\* the scripts of a page for an extractor: a good block, a block whose repair
\* does not parse, a text that is no JSON, an empty script, and a block
\* without the member
JaneSmith == <<"J","a","n","e"," ","S","m","i","t","h">>

ScriptTexts(fn) ==
  { Malformed(FieldOf(fn), JaneSmith, {}),
    Malformed(FieldOf(fn), JaneSmith, {"trailing", "unquoted"}),
    Malformed(FieldOf(fn), <<"J","a","n","e",","," ","d","e","s","k",":"," ","N","Y">>,
              {"trailing"}),
    <<"n","o","t"," ","j","s","o","n">>,
    NoText,
    Malformed(<<"n","a","m","e","_","1">>, JaneSmith, {"single"}) }

\* the most scripts of a page
MaxScripts == 2

ScriptLists(fn) ==
  UNION { [1..n -> ScriptTexts(fn)] : n \in 1..MaxScripts }

\* an extractor reaches its JSON-LD loop
InitJsonLd ==
  /\ \E fn \in JsonLdFns : \E scripts \in ScriptLists(fn) :
       input = [fn |-> fn, scripts |-> scripts,
                rawHtml |-> toLowerCase(Concat(scripts))]
  /\ frame = [pc |-> "script", k |-> 1, found |-> NoText, value |-> NoText]
  /\ HandlerIdle

\* one call of the each callback
ScriptStep ==
  /\ input.fn \in JsonLdFns /\ frame.pc = "script"
  /\ LET scriptDone == ScriptOutcome(input.fn, input.scripts[frame.k], input.rawHtml)
     IN  frame' =
           IF scriptDone.kind = "thrown" THEN [frame EXCEPT !.pc = "thrown"]
           ELSE IF scriptDone.kind = "found"
             THEN [frame EXCEPT !.pc = "after", !.found = scriptDone.value]
           ELSE IF frame.k = Len(input.scripts) THEN [frame EXCEPT !.pc = "after"]
           ELSE [frame EXCEPT !.k = frame.k + 1]
  /\ UNCHANGED << input, handlerVars >>

\* after the loop: return what was found, or go on to the next strategy
AfterScriptsStep ==
  /\ input.fn \in JsonLdFns /\ frame.pc = "after"
  /\ frame' = IF frame.found # NoText
                THEN [frame EXCEPT !.pc = "returned", !.value = frame.found]
                ELSE [frame EXCEPT !.pc = "nextStrategy"]
  /\ UNCHANGED << input, handlerVars >>

NextJsonLd ==
  \/ ScriptStep
  \/ AfterScriptsStep

SpecJsonLd == InitJsonLd /\ [][NextJsonLd]_vars

\* ------------------------------------------------ any batch size of the schema
\* batchSize is z.number(): the calls with a batch size of zero as well. (A
\* negative batch size makes i fall without end over batches that are all
\* empty; the model keeps to zero, where i stays as it is.)
AnyBatchArgs ==
  { [DefaultArgs EXCEPT !.batchSize = b, !.silentErrors = s] :
      b \in 0..MaxBatch, s \in BOOLEAN }

InitAnyBatch ==
  /\ databaseInfo = StandardSchema
  /\ args \in AnyBatchArgs
  /\ rows \in RowLists
  /\ prev = NoPrev
  /\ input = NoInput
  /\ frame = NoFrame
  /\ FreshRun(rows)

\* every call returns or fails and every timer fires
SpecAnyBatch == InitAnyBatch /\ [][Next]_vars /\ WF_vars(Next)

\* ------------------------------------------------------------- properties
Finished == pc = "returned" /\ ~ret.isError

Untouched(r) ==
  /\ issued[r]["update"] = 0 /\ issued[r]["list"] = 0 /\ issued[r]["append"] = 0
  /\ dest[r] = [properties |-> << >>, blocks |-> rows[r].blocks]

SomeCallFailed(r) == \E c \in Calls : outcome[r][c] = "failed"

CeilDiv(a, b) == (a + b - 1) \div b

\* C1: once the rows are queried, no row's failure aborts the run: the run
\* never ends in the error result, and when it returns every row's task has
\* finished, every row with a usable URL was fetched, and every row has its
\* own line in the report.
C1_RowFailureIsolated ==
  /\ (setup.query = "ok" /\ pc = "returned") => ~ret.isError
  /\ Finished =>
       /\ \A r \in Rows :
            /\ task[r].tpc = "fulfilled"
            /\ ValidUrl(ReadUrl(rows[r], UrlType)) => issued[r]["fetch"] = 1
            /\ \E k \in 1..Len(ret.details) :
                 ret.details[k] = [row |-> r, kind |-> task[r].line]

\* a run of two batches whose first row failed while its sibling and the row
\* of the later batch succeeded
C1_Witness ==
  /\ Finished /\ N = 3 /\ Len(batchLog) = 2 /\ batchLog[1] = {1, 2}
  /\ task[1].line = "failed" /\ task[2].line = "success" /\ task[3].line = "success"

\* C2 (as claimed): every row one of whose calls failed, the fetch, the
\* property update or the block list or append, has the failed line, is
\* counted in failureCount and is not counted in successCount.
C2_EveryFailureMarksRowFailed ==
  Finished =>
    /\ \A r \in Rows : SomeCallFailed(r) => task[r].line = "failed"
    /\ failureCount = Cardinality({ r \in Rows : SomeCallFailed(r) })
    /\ successCount =
         Cardinality({ r \in Rows : issued[r]["fetch"] = 1 /\ ~SomeCallFailed(r) })

C4_BatchBarrier ==
  /\ \A r \in Rows :
       task[r].tpc # "idle" <=> \E k \in 1..Len(batchLog) : r \in batchLog[k]
  /\ \A k \in 1..Len(batchLog) : \A j \in 1..(k - 1) : \A q \in batchLog[j] :
       task[q].tpc = "fulfilled"
  /\ \A r \in Rows : task[r].tpc # "rejected"
  /\ pc \in {"delay", "returned"} =>
       \A k \in 1..Len(batchLog) : \A q \in batchLog[k] : task[q].tpc = "fulfilled"

\* the second batch has started after a first batch in which one row failed
\* and its sibling went on to succeed
C4_Witness ==
  /\ Len(batchLog) = 2 /\ batchLog[1] = {1, 2} /\ task[3].tpc = "fetch"
  /\ task[1].line = "failed" /\ task[2].line = "success"
  /\ outcome[2]["append"] = "ok"

\* C5: the report holds, after the mapping entry, exactly one line per queried
\* row, the line of row r in place r.
C5_ReportInRowOrder ==
  Finished =>
    /\ Len(ret.details) = N + 1
    /\ ret.details[1] = MappingLine
    /\ \A r \in Rows :
         /\ task[r].line # ""
         /\ ret.details[r + 1] = [row |-> r, kind |-> task[r].line]

\* the second row of a batch finished at once, for lack of a URL, while the
\* first row of the batch was still waiting for its calls
C5_Witness ==
  /\ Finished /\ N >= 2 /\ batchLog[1] = {1, 2}
  /\ task[1].line = "success" /\ task[2].line = "noUrl"

\* C6 (as claimed): a second run on the same rows, with the same outcomes of
\* the calls and silentErrors switched, counts the same successes and failures
\* and issues the same calls.
C6_SilentErrorsOnlyWording ==
  (prev.ran /\ pc = "returned") =>
    /\ ret.isError = prev.isError
    /\ successCount = prev.successCount
    /\ failureCount = prev.failureCount
    /\ issued = prev.issued

\* C7: when databases.retrieve or databases.query fails the run has returned
\* the error result, and no batch was started, no task launched, no call
\* issued for any row and no page changed.
C7_SetupFailureAborts ==
  (setup.retrieve = "failed" \/ setup.query = "failed") =>
    /\ pc = "returned"
    /\ ret = OuterCatch
    /\ ret.isError /\ ret.details = << >>
    /\ batchLog = << >>
    /\ \A r \in Rows :
         /\ task[r] = IdleTask
         /\ issued[r]["fetch"] = 0
         /\ Untouched(r)

\* the query failed on a database that holds a row with a usable URL
C7_Witness ==
  /\ setup.query = "failed" /\ N >= 1
  /\ ValidUrl(ReadUrl(rows[1], UrlType))

\* C8: a row whose URL property, of type url, rich_text or title, holds no
\* text starting with "http" is skipped: its task ends at once with the
\* "No valid URL" line, no call is ever issued for it, its line is in the
\* report, and the other rows of the run are processed to their own lines.
C8_NoHttpRowSkipped ==
  \A r \in Rows :
    ( /\ task[r].tpc # "idle"
      /\ UrlType \in {"url", "rich_text", "title"}
      /\ ~startsWith(rows[r].link, HttpPrefix) ) =>
        /\ task[r] = [tpc |-> "fulfilled", line |-> "noUrl"]
        /\ issued[r]["fetch"] = 0
        /\ Untouched(r)
        /\ Finished =>
             /\ ret.details[r + 1] = [row |-> r, kind |-> "noUrl"]
             /\ \A q \in Rows : task[q].tpc = "fulfilled" /\ task[q].line # ""

\* a finished run whose second row was skipped between two rows that were
\* fetched and written
C8_Witness ==
  /\ Finished /\ N = 3 /\ UrlType = "url"
  /\ ~startsWith(rows[2].link, HttpPrefix) /\ task[2].line = "noUrl"
  /\ task[1].line = "success" /\ task[3].line = "success"
  /\ outcome[1]["update"] = "ok" /\ outcome[3]["update"] = "ok"

\* C9: a row whose fetch failed has the failed line and is counted in
\* failureCount, not in successCount; no update, list or append is issued for
\* it and its page is as it was.
C9_FetchFailureLeavesRowUntouched ==
  /\ \A r \in Rows :
       outcome[r]["fetch"] = "failed" =>
         /\ task[r] = [tpc |-> "fulfilled", line |-> "failed"]
         /\ Untouched(r)
  /\ failureCount = Cardinality({ r \in Rows : task[r].line = "failed" })
  /\ successCount = Cardinality({ r \in Rows : task[r].line = "success" })
  /\ \A r \in Rows : task[r].line = "failed" => outcome[r]["fetch"] = "failed"

\* a finished run in which the fetch of a row failed
C9_Witness ==
  /\ Finished
  /\ \E r \in Rows : outcome[r]["fetch"] = "failed" /\ failureCount = 1

WithinLimit(v) ==
  /\ v.kind = "rich_text" => \A k \in 1..Len(v.content) : v.content[k] <= RichTextLimit
  /\ v.kind \in {"select", "multi_select"} =>
       \A k \in 1..Len(v.content) : v.content[k] <= SelectLimit

\* C10 (as claimed): every property value and every content block handed to
\* the destination is within the limit of its kind: rich_text content at most
\* 2000 characters, select and multi_select names at most 100.
C10_WritesWithinLimits ==
  \A r \in Rows :
    /\ \A k \in 1..Len(sent[r].properties) : WithinLimit(sent[r].properties[k].value)
    /\ \A k \in 1..Len(sent[r].children) : WithinLimit(sent[r].children[k])

\* the kinds for which the write mapper has a branch, field by field
SupportedKinds ==
  [ publication |-> {"select", "rich_text", "title"},
    author |-> {"multi_select", "select", "rich_text"},
    date |-> {"date"},
    summary |-> {"rich_text", "select", "multi_select"} ]

\* the page of row r yielded a value for a field whose destination exists and
\* is of a kind the write mapper has no branch for
UnsupportedField(r) ==
  \/ /\ rows[r].metadata.publication > 0
     /\ mapping.publicationPropertyType \notin SupportedKinds.publication \cup {NoType}
  \/ /\ rows[r].metadata.author # << >>
     /\ mapping.authorPropertyType \notin SupportedKinds.author \cup {NoType}
  \/ /\ rows[r].metadata.date # NoDate
     /\ mapping.datePropertyType \notin SupportedKinds.date \cup {NoType}
  \/ /\ ContentLen(rows[r].metadata.content) > 0 /\ args.generateSummary
     /\ mapping.summaryPropertyType \notin SupportedKinds.summary \cup {NoType}

\* C11 (as claimed): a row whose page was fetched and yielded a value for a
\* field whose destination is of a kind the write mapper does not support is
\* not reported as a plain success: its status line tells of the value that
\* was not written.
C11_UnsupportedKindReported ==
  \A r \in Rows :
    (task[r].tpc = "fulfilled" /\ outcome[r]["fetch"] = "ok" /\ UnsupportedField(r))
      => task[r].line # "success"

\* C12: an append is issued for a row only after its blocks were listed and
\* fewer than three were found; a row whose page has three or more blocks
\* never has an append issued and keeps the blocks it had.
C12_AppendOnlyBelowThreshold ==
  \A r \in Rows :
    /\ issued[r]["append"] > 0 =>
         (outcome[r]["list"] = "ok" /\ rows[r].blocks < BlockThreshold)
    /\ rows[r].blocks >= BlockThreshold =>
         (issued[r]["append"] = 0 /\ dest[r].blocks = rows[r].blocks)

\* a finished run with a row of two blocks that received its append and a
\* row of three blocks that was listed and left alone
C12_Witness ==
  /\ Finished
  /\ \E r \in Rows : /\ rows[r].blocks = BlockThreshold - 1
                      /\ outcome[r]["append"] = "ok"
                      /\ dest[r].blocks > rows[r].blocks
  /\ \E r \in Rows : /\ rows[r].blocks = BlockThreshold
                      /\ outcome[r]["list"] = "ok"
                      /\ task[r].line = "success"

InSchema(name) == \E k \in 1..Len(databaseInfo) : databaseInfo[k].name = name

SomeExact(possibleNames) ==
  \E n \in 1..Len(possibleNames) : InSchema(possibleNames[n])

SomeCase(possibleNames) ==
  \E n \in 1..Len(possibleNames), k \in 1..Len(databaseInfo) :
    CaseTest(possibleNames[n], databaseInfo[k].name)

SomePartial(possibleNames) ==
  \E n \in 1..Len(possibleNames), k \in 1..Len(databaseInfo) :
    PartialTest(possibleNames[n], databaseInfo[k].name)

\* result is of the highest tier the declared name, the candidates and the
\* schema allow
ByPriority(declared, possibleNames, result) ==
  IF declared # NoName THEN result = declared
  ELSE IF SomeExact(possibleNames)
    THEN InSchema(result) /\ \E n \in 1..Len(possibleNames) : possibleNames[n] = result
  ELSE IF SomeCase(possibleNames)
    THEN InSchema(result)
         /\ \E n \in 1..Len(possibleNames) : CaseTest(possibleNames[n], result)
  ELSE IF SomePartial(possibleNames)
    THEN InSchema(result)
         /\ \E n \in 1..Len(possibleNames) : PartialTest(possibleNames[n], result)
  ELSE result = possibleNames[1]

\* C13: each of the five destination names is the declared name when one is
\* declared, else a candidate that is a schema property when there is one,
\* else a property equal to a candidate up to case, else a property that
\* contains a candidate or is contained in one, else the first candidate; the
\* names are resolved before any row task starts and stay as they are to the
\* end of the run.
C13_ResolutionByPriority ==
  /\ [](pc = "query" =>
         /\ ByPriority(args.urlPropertyName, UrlNames, mapping.urlPropertyName2)
         /\ ByPriority(args.publicationPropertyName, PublicationNames,
                       mapping.publicationProperty)
         /\ ByPriority(args.authorPropertyName, AuthorNames, mapping.authorProperty)
         /\ ByPriority(args.datePropertyName, DateNames, mapping.dateProperty)
         /\ ByPriority(args.summaryPropertyName, SummaryNames, mapping.summaryProperty))
  /\ [](mapping = NoMapping =>
         \A r \in Rows : task[r] = IdleTask /\ issued[r]["fetch"] = 0)
  /\ [][mapping # NoMapping => mapping' = mapping]_vars

\* the names are resolved on a schema in which a later candidate matches
\* exactly ("Writer") while the first matches only up to case ("author"), and
\* a later candidate matches up to case ("tldr") while the first is only a
\* part of a property ("My Summary")
C13_Witness ==
  /\ pc = "query"
  /\ databaseInfo = TierSchema
  /\ mapping.authorProperty = <<"W","r","i","t","e","r">>
  /\ mapping.summaryProperty = <<"t","l","d","r">>

\* a candidate of one word: no white space between its first and its last
\* character
NoInternalSpace(author) == ~includes(trim(author), << " " >>)

\* C16 (as claimed): every candidate without internal white space is rejected,
\* whatever the page text.
C16_NoSpaceRejected ==
  (frame.pc = "returned" /\ NoInternalSpace(input.author)) => ~frame.value

\* C16 (amended): every candidate without internal white space and without a
\* comma is rejected, whatever the page text.
C16_NoSpaceNoCommaRejected ==
  (/\ frame.pc = "returned"
   /\ NoInternalSpace(input.author)
   /\ ~includes(input.author, << "," >>)) => ~frame.value

\* "Staff" was rejected on a page that has the word
C16_Witness ==
  /\ frame.pc = "returned"
  /\ input.author = <<"S","t","a","f","f">>
  /\ includes(input.rawHtml, <<"s","t","a","f","f">>)
  /\ ~frame.value

\* the sub-names of a candidate that pass the presence check of the loop
FoundSubNames(author, rawHtml) ==
  LET authorList == SplitAuthors(cleanAuthor(author), << >>)
  IN  { k \in 1..Len(authorList) : SingleAuthorFound(authorList[k], rawHtml) }

\* C17: a candidate with a comma or " and " passes exactly when the sub-names
\* that pass the presence check are at least half of all its sub-names.
C17_HalfOfSubNames ==
  (frame.pc = "returned" /\ isMultipleAuthors(input.author)) =>
    (frame.value <=>
       2 * Cardinality(FoundSubNames(input.author, input.rawHtml))
         >= Len(SplitAuthors(cleanAuthor(input.author), << >>)))

\* a list of two sub-names passed with exactly one of them found
C17_Witness ==
  /\ frame.pc = "returned"
  /\ isMultipleAuthors(input.author)
  /\ Len(SplitAuthors(cleanAuthor(input.author), << >>)) = 2
  /\ Cardinality(FoundSubNames(input.author, input.rawHtml)) = 1
  /\ frame.value

\* the candidates of the cascade, in the order in which extractAuthor comes to
\* them
RECURSIVE ContainerCandidates(_)
ContainerCandidates(containers) ==
  IF containers = << >> THEN << >>
  ELSE (IF TrimmedNames(Head(containers).links, 2) # << >>
          THEN << JoinNames(TrimmedNames(Head(containers).links, 2)) >> ELSE << >>)
       \o << ProcessByline(Head(containers).text) >>
       \o ContainerCandidates(Tail(containers))

RECURSIVE PatternCandidates(_)
PatternCandidates(patterns) ==
  IF patterns = << >> THEN << >>
  ELSE (IF Len(Head(patterns)) > 1
          THEN << JoinNames(PatternNames(Head(patterns))) >> ELSE << >>)
       \o PatternCandidates(Tail(patterns))

RECURSIVE BylineCandidates(_)
BylineCandidates(elements) ==
  IF elements = << >> THEN << >>
  ELSE (IF BylineUsable(Head(elements))
          THEN << ProcessByline(Head(elements)) >> ELSE << >>)
       \o BylineCandidates(Tail(elements))

SiteCandidates(doc) ==
  (IF includes(getHostnameFromHtml(doc), ApNewsHost)
     THEN << JoinNames(TrimmedNames(doc.pageAuthorLinks, 0)) >> ELSE << >>)
  \o (IF includes(getHostnameFromHtml(doc), NytimesHost)
        THEN << IF trim(doc.nytByline) # NoText THEN trim(doc.nytByline)
                ELSE trim(StripBy(doc.metaByl)) >>
        ELSE << >>)

CascadeCandidates(doc) ==
  SelectSeq(
    SiteCandidates(doc)
    \o ContainerCandidates(doc.containers)
    \o doc.jsonLd
    \o PatternCandidates(doc.patterns)
    \o (IF Len(doc.relAuthor) > 1 THEN << JoinNames(TrimmedNames(doc.relAuthor, 0)) >>
        ELSE IF Len(doc.relAuthor) = 1 THEN << trim(doc.relAuthor[1]) >>
        ELSE << >>)
    \o BylineCandidates(doc.bylines)
    \o << AndToComma(trim(doc.byMatch)), doc.metaAuthor >>,
    LAMBDA c : c # NoText)

\* the places in the cascade of the candidates the validator accepts
ValidatedCandidates ==
  { k \in 1..Len(CascadeCandidates(input.doc)) :
      validateExtractedAuthor(CascadeCandidates(input.doc)[k], frame.rawHtml) }

\* value is candidate c as it was found or as the final clean-up leaves it
ReturnedAs(c) == frame.value = c \/ frame.value = CleanUp(c)

\* C14 (as claimed): every non-empty value extractAuthor returns is a
\* candidate that has passed the Author Validator.
C14_ReturnedAuthorValidated ==
  (frame.pc = "returned" /\ frame.value # NoText) =>
    \E k \in ValidatedCandidates : ReturnedAs(CascadeCandidates(input.doc)[k])

\* C15 (as claimed): when some strategy produces a validated candidate,
\* extractAuthor returns the first validated candidate of the cascade, never
\* the candidate of a later strategy.
C15_EarliestValidatedWins ==
  (frame.pc = "returned" /\ ValidatedCandidates # {}) =>
    ReturnedAs(CascadeCandidates(input.doc)[MinOf(ValidatedCandidates)])

\* C18 (as claimed): extractPublication never returns the empty string.
C18_PublicationNeverEmpty ==
  (input.fn = "extractPublication" /\ frame.pc = "returned") => frame.value # NoText

\* C19 (as claimed): every value extractDate returns other than '' is one that
\* isValidDate or parseLooseDate accepts.
C19_ReturnedDateAccepted ==
  (input.fn = "extractDate" /\ frame.pc = "returned" /\ frame.value # EmptyText) =>
    (isValidDate(frame.value) \/ parseLooseDate(frame.value) # NullDate)

\* a text of the form YYYY-MM-DD: four digits, two digits, two digits
IsYearMonthDay(t) ==
  t.shape = "iso" /\ t.y \in 1000..9999 /\ t.m \in 0..99 /\ t.d \in 0..99

\* C20 (as claimed): the date extractDate returns, which is the date field of
\* the record extractMetadataFromUrl returns, is '' or of the form YYYY-MM-DD.
C20_DateEmptyOrYearMonthDay ==
  (input.fn = "extractDate" /\ frame.pc = "returned") =>
    (frame.value = EmptyText \/ IsYearMonthDay(frame.value))

\* C21 (as claimed): whenever parseLooseDate returns a value other than null,
\* the value is a zero-padded YYYY-MM-DD string, the direct parse included.
C21_LooseDateIsYearMonthDay ==
  (input.fn = "parseLooseDate" /\ frame.pc = "returned" /\ frame.value # NullDate) =>
    IsYearMonthDay(frame.value)

\* a text of numbers whose month or day is outside the calendar
OutOfCalendar(t) ==
  /\ t.shape \in {"iso", "slash"}
  /\ ~(t.m \in 1..12 /\ t.d \in 1..31)
  /\ t.shape = "slash" => ~(t.d \in 1..12 /\ t.m \in 1..31)

\* C22 (as claimed): parseLooseDate returns null for a numeric date whose
\* month or day is out of calendar range and for a text that holds no date.
C22_NullOutOfRangeOrNoDate ==
  (/\ input.fn = "parseLooseDate" /\ frame.pc = "returned"
   /\ (OutOfCalendar(input.text) \/ input.text = Words)) =>
    frame.value = NullDate

\* C24 (as claimed): for every malformed but repairable block (trailing comma,
\* unquoted key, single-quoted strings, embedded comment), parsing what
\* sanitizeJsonString returns gives the object that parsing the hand-corrected
\* block gives.
C24_SanitizedParsesAsCorrected ==
  (/\ input.fn = "sanitizeJsonString" /\ frame.pc = "returned"
   /\ input.faults # {}) =>
    /\ frame.value # NullJson
    /\ JsonParse(frame.value) = JsonParse(HandCorrected(input.key, input.value))

\* the repairs do work on blocks whose strings hold no comma, colon or
\* apostrophe
PlainValuesRepaired ==
  (/\ input.fn = "sanitizeJsonString" /\ frame.pc = "returned"
   /\ input.value \in { <<"J","a","n","e">>, <<"J","a","n","e"," ","S","m","i","t","h">> }) =>
    /\ frame.value # NullJson
    /\ JsonParse(frame.value) = JsonParse(HandCorrected(input.key, input.value))

\* the hand-corrected block parses to its one member
HandCorrectedParses ==
  input.fn = "sanitizeJsonString" =>
    JsonParse(HandCorrected(input.key, input.value)) =
      [ok |-> TRUE, members |-> << << input.key, input.value >> >>]

\* a script that cannot be cleaned or whose cleaned text does not parse
BadScript(scriptContent) ==
  \/ sanitizeJsonString(scriptContent) = NullJson
  \/ ~JsonParse(sanitizeJsonString(scriptContent)).ok

\* a script that yields a value to the extractor
GoodScript(k) ==
  ScriptOutcome(input.fn, input.scripts[k], input.rawHtml).kind = "found"

\* C23: a malformed JSON-LD block never makes an extractor throw: the block
\* is skipped, the loop goes on with the next block (so the value returned is
\* that of the first block that yields one), and when no block yields a value
\* the extractor goes on to its next strategy.
C23_MalformedBlockSkipped ==
  input.fn \in JsonLdFns =>
    /\ frame.pc # "thrown"
    /\ frame.pc = "returned" =>
         \E k \in 1..Len(input.scripts) :
           /\ GoodScript(k)
           /\ \A j \in 1..(k - 1) : ~GoodScript(j)
           /\ frame.value = Member(JsonParse(sanitizeJsonString(input.scripts[k])).members,
                                   FieldOf(input.fn))
    /\ frame.pc = "nextStrategy" => \A k \in 1..Len(input.scripts) : ~GoodScript(k)

\* a value is returned from the second script after the first one, whose
\* cleaned text does not parse, was skipped
C23_Witness ==
  /\ input.fn \in JsonLdFns /\ frame.pc = "returned"
  /\ Len(input.scripts) = 2
  /\ sanitizeJsonString(input.scripts[1]) # NullJson
  /\ ~JsonParse(sanitizeJsonString(input.scripts[1])).ok
  /\ frame.value = JaneSmith

\* what each strategy of extractDate yields on the page, in the order of the
\* code: JSON-LD, time elements near the author, time elements in the scope,
\* meta tags, first paragraphs
DateYields ==
  << JsonLdDate(input.doc.jsonLd),
     TimeElements(input.doc.near, FALSE),
     TimeElements(input.doc.scope, TRUE),
     MetaDate(input.doc.metas),
     TopParagraphs(input.doc.topText) >>

\* C25: extractDate returns what the first strategy that yields something
\* yields, in the fixed order of the strategies; a later strategy is used
\* only when every earlier one yielded nothing.
C25_FirstYieldingStrategyWins ==
  (input.fn = "extractDate" /\ frame.pc = "returned") =>
    \/ /\ \A k \in 1..Len(DateYields) : DateYields[k] = EmptyText
       /\ frame.value = EmptyText
    \/ \E k \in 1..Len(DateYields) :
         /\ DateYields[k] # EmptyText
         /\ \A j \in 1..(k - 1) : DateYields[j] = EmptyText
         /\ frame.value = DateYields[k]

\* the time elements near the author win over other time elements of the
\* scope and over a meta tag that yield other dates
C25_Witness ==
  /\ input.fn = "extractDate" /\ frame.pc = "returned"
  /\ DateYields[1] = EmptyText
  /\ DateYields[2] # EmptyText
  /\ DateYields[3] \notin {EmptyText, DateYields[2]}
  /\ DateYields[4] \notin {EmptyText, DateYields[2]}
  /\ frame.value = DateYields[2]

\* a step of a row task: the handler waits on Promise.all before and after
RowTaskStep == pc = "await" /\ pc' = "await"

\* the step leaves the records of every row but one as they are
OwnRecordOnly ==
  \E r \in Rows : \A q \in Rows \ {r} :
    /\ task'[q] = task[q]
    /\ issued'[q] = issued[q]
    /\ outcome'[q] = outcome[q]
    /\ sent'[q] = sent[q]
    /\ dest'[q] = dest[q]

\* the task of row r run alone from state s on, its calls ending as they did
RECURSIVE RunAlone(_, _)
RunAlone(r, s) ==
  LET ok == outcome[r][s.tpc] = "ok"
  IN  IF s.tpc = "fetch" THEN RunAlone(r, OnFetch(ok, rows[r], mapping, args))
      ELSE IF s.tpc = "update" THEN RunAlone(r, OnUpdate(ok, rows[r], args))
      ELSE IF s.tpc = "list" THEN RunAlone(r, OnList(ok, rows[r], args))
      ELSE IF s.tpc = "append" THEN RunAlone(r, OnAppend(ok, rows[r], args))
      ELSE s

\* the line, the counts and the page of every row are those of the row's
\* task run alone
AsRunAlone ==
  /\ \A r \in Rows :
       /\ task[r].line = RunAlone(r, StartTask(rows[r], UrlType)).line
       /\ dest[r].properties =
            IF outcome[r]["update"] = "ok"
              THEN BuildProperties(rows[r].metadata, mapping, args.generateSummary)
              ELSE << >>
       /\ dest[r].blocks =
            rows[r].blocks + (IF outcome[r]["append"] = "ok"
                                THEN Len(createContentBlocks(rows[r].metadata.content))
                                ELSE 0)
  /\ successCount =
       Cardinality({ r \in Rows : RunAlone(r, StartTask(rows[r], UrlType)).ds = 1 })
  /\ failureCount =
       Cardinality({ r \in Rows : RunAlone(r, StartTask(rows[r], UrlType)).df = 1 })

\* C26 (as claimed): a step of a row task writes nothing that its siblings
\* share: it changes the records of its own row only, not successCount,
\* failureCount or results; and the finished run is as if every row's task
\* had run alone.
C26_NoSharedWrites ==
  /\ [][RowTaskStep =>
          /\ OwnRecordOnly
          /\ UNCHANGED << successCount, failureCount, results >>]_vars
  /\ [](Finished => AsRunAlone)

\* C26 (amended): apart from successCount and failureCount, of which a step
\* of a row task increments at most one, by one, and only as the task
\* finishes, a row task changes the records of its own row only; and the
\* finished run is as if every row's task had run alone.
C26_SharedWritesOnlyCounters ==
  /\ [][RowTaskStep =>
          /\ OwnRecordOnly
          /\ results' = results
          /\ successCount' \in {successCount, successCount + 1}
          /\ failureCount' \in {failureCount, failureCount + 1}
          /\ successCount' + failureCount' <= successCount + failureCount + 1
          /\ successCount' + failureCount' # successCount + failureCount =>
               \E r \in Rows : task[r].tpc \in Calls /\ task'[r].tpc = "fulfilled"]_vars
  /\ [](Finished => AsRunAlone)

\* both rows of a batch were counted, the second one having finished while
\* the first one was still waiting for a call
C26_Witness ==
  /\ pc = "await" /\ N >= 2 /\ batchLog[1] = {1, 2}
  /\ task[1].tpc = "append" /\ task[2].line = "failed"
  /\ failureCount = 1 /\ successCount = 0

\* the calls of a row task in the order the task issues them
CallOrder == << "fetch", "update", "list", "append" >>

\* no call of a row is issued twice
NoCallIssuedTwice == \A r \in Rows : \A c \in Calls : issued[r][c] <= 1

\* C27 (as claimed): no call of a row is issued more than once, and a call
\* that failed is the last call of its row: the task is finished and none of
\* the calls that come after it is issued.
C27_NoRetryFailureTerminal ==
  /\ NoCallIssuedTwice
  /\ \A r \in Rows : \A k \in 1..Len(CallOrder) :
       outcome[r][CallOrder[k]] = "failed" =>
         /\ task[r].tpc = "fulfilled"
         /\ \A j \in (k + 1)..Len(CallOrder) : issued[r][CallOrder[j]] = 0

\* the names the five fields are resolved to: url, publication, author, date,
\* summary
ResolvedNames ==
  << mapping.urlPropertyName2, mapping.publicationProperty, mapping.authorProperty,
     mapping.dateProperty, mapping.summaryProperty >>

\* C29 (as claimed): the five fields are resolved to five different
\* properties, and no payload handed to pages.update sets the property the
\* URL is read from.
C29_DistinctDestinations ==
  mapping # NoMapping =>
    /\ \A a \in 1..Len(ResolvedNames) : \A b \in (a + 1)..Len(ResolvedNames) :
         ResolvedNames[a] # ResolvedNames[b]
    /\ \A r \in Rows : \A k \in 1..Len(sent[r].properties) :
         sent[r].properties[k].name # mapping.urlPropertyName2

\* C30 (as claimed): in a finished run every row is skipped for lack of a
\* URL, counted as a success or counted as a failure, so the total reported
\* is the number of rows less the skipped ones.
C30_EveryRowSkippedOrCounted ==
  Finished =>
    /\ \A r \in Rows : task[r].line \in {"noUrl", "success", "failed"}
    /\ ret.successful = Cardinality({ r \in Rows : task[r].line = "success" })
    /\ ret.failed = Cardinality({ r \in Rows : task[r].line = "failed" })
    /\ ret.processed = N - Cardinality({ r \in Rows : task[r].line = "noUrl" })

\* C28 (as claimed): a run ends for every batch size the schema accepts and
\* every list of rows, every call returning or failing.
C28_RunTerminates == <>(pc = "returned")

\* a run with a batch size of one or more ends
PositiveBatchTerminates == (args.batchSize >= 1) => <>(pc = "returned")

====
